---- MODULE Spec2Model ----
(***************************************************************************)
(* State-machine model of the ai-news pipeline:                            *)
(*   - the model pair selector        (lib/ai/models, src/unnamed/part_002) *)
(*   - the rate-limited Twitter client (src/unnamed/part_007)               *)
(*   - the Redis-backed storage        (src/unnamed/part_000)               *)
(*   - the fetch-and-process cycle     (src/unnamed/part_005)               *)
(* Each component has its own specification (SpecSelector, SpecTwitter,    *)
(* SpecStorage, SpecCycle); the variables of the other components keep     *)
(* their initial values in it.                                             *)
(***************************************************************************)
EXTENDS Integers, Sequences, FiniteSets, TLC

VARIABLES
    \* ---- model pair selector
    poolSize,            \* MODEL_POOL.length
    lastModelPairIndex,  \* module-level rotation pointer
    selResult,           \* what the last selector call returned or threw
    selHistory,          \* pairs returned by getModelPair since the last reset
    \* ---- twitterApiRequest (one call)
    twPc,                \* "fetch" | "sleep" | "done"
    twAttempt,           \* the loop variable `attempt`
    twResponses,         \* the responses received so far, one per HTTP request
    twWaits,             \* the waitTime of every sleep() performed so far
    twLastError,         \* `lastError`
    twOutcome,           \* how the call ended: returned a value or threw
    \* ---- storage
    store,               \* the persisted aggregate (the three Redis keys)
    now,                 \* the clock read by Date.now() / new Date()
    procs,               \* the mutations in flight: what each has read
    opsBegun,            \* number of mutations started
    writeSeq,            \* number of writeStorageData calls completed
    lastCall,            \* the mutation that completed last
    prevCall,            \* the mutation that completed before it
    \* ---- fetch-and-process cycle
    cyPc,                \* "idle" | "fetched" | "processed"
    cyCount,             \* number of cycles started
    cyBatchMode,         \* the batchMode argument of the cycle in progress
    cyContent,           \* allContent: the raw content ids fetched
    cyProcessed,         \* processedContent
    cyAllOk,             \* every model call of the cycle in progress succeeded
    cyResponse,          \* the response of the cycle that completed last
    cyLast,              \* the cycle that completed last
    cyPrev,              \* the cycle that completed before it
    cyFetch,             \* sourceIds of the cycle in progress and the sources it went to
    \* ---- summarization
    prCall,              \* the last call of the summarizer: its input and result
    \* ---- model statistics
    gsCall,              \* the last call of getModelStats: the data it read, its result
    \* ---- fan-out of the fetchers of a cycle
    ftFetchers,          \* the YouTube and the blog fetcher: running or settled, and their result
    ftTwitter,           \* fetchAllTwitterContent: its loop over the sources
    ftJoin,              \* the Promise.all of the three fetchers and what follows it
    \* ---- getUserId and its cache
    userIdCache,         \* the module-level Map: key -> user record
    ucCalls,             \* the getUserId calls in flight: what each is waiting for
    ucBegun,             \* number of getUserId calls started
    ucLast,              \* the getUserId call that completed last
    \* ---- processAllContent as it runs
    chContents,          \* the contents argument of the call in progress
    chPc,                \* idle | running | pause | done
    chIndex,             \* the loop variable i
    chCalls,             \* per item, its two model calls: none | inflight | ok | failed
    chPauses,            \* pauses elapsed so far
    chResults,           \* results
    \* ---- The cron route
    rtEnv,               \* process.env: NODE_ENV is production or not, CRON_SECRET
    rtHandled,           \* requests handled so far
    rtLast               \* the last request handled and what the route did with it

selVars == <<poolSize, lastModelPairIndex, selResult, selHistory>>
twVars  == <<twPc, twAttempt, twResponses, twWaits, twLastError, twOutcome>>
stVars  == <<store, now, procs, opsBegun, writeSeq, lastCall, prevCall>>
cyVars  == <<cyPc, cyCount, cyBatchMode, cyContent, cyProcessed, cyAllOk,
             cyResponse, cyLast, cyPrev, cyFetch>>
prVars  == <<prCall>>
gsVars  == <<gsCall>>
ftVars  == <<ftFetchers, ftTwitter, ftJoin>>
ucVars  == <<userIdCache, ucCalls, ucBegun, ucLast>>
chVars  == <<chContents, chPc, chIndex, chCalls, chPauses, chResults>>
rtVars  == <<rtEnv, rtHandled, rtLast>>
vars    == <<selVars, twVars, stVars, cyVars, prVars, gsVars, ftVars, ucVars, chVars, rtVars>>

Min(a, b) == IF a <= b THEN a ELSE b

RECURSIVE Pow2(_)
Pow2(n) == IF n <= 0 THEN 1 ELSE 2 * Pow2(n - 1)

(***************************************************************************)
(* Model pair selector                                                     *)
(***************************************************************************)

\* Largest pool size explored and longest run of rotation calls recorded.
MaxPool == 5
MaxSelections == 4

MODELS_PER_CONTENT == 2

\* JavaScript's `undefined`, what indexing an array past its end yields.
\* Model ids are 1..poolSize, so 0 is no model.
Undefined == 0

\* MODEL_POOL: the configured models, here identified by their position.
MODEL_POOL(n) == [i \in 1..n |-> i]

\* arr[i] with a 0-based index, as JavaScript evaluates it.
At(arr, i) == IF i >= 0 /\ i < Len(arr) THEN arr[i + 1] ELSE Undefined

NoResult == [kind |-> "none", a |-> Undefined, b |-> Undefined, message |-> ""]

TotalPairs(n) == n \div MODELS_PER_CONTENT

NextPairIndex(idx, n) == (idx + 1) % TotalPairs(n)

\* A rotation whose indices are taken modulo the number of pairs instead of
\* the length of the pool.
PairAtModuloPairs(idx, n) ==
    <<At(MODEL_POOL(n), (idx * 2) % TotalPairs(n)),
      At(MODEL_POOL(n), (idx * 2 + 1) % TotalPairs(n))>>

\* A rotation that steps by one model instead of by one pair.
PairAtOverlapping(idx, n) ==
    <<At(MODEL_POOL(n), idx % n), At(MODEL_POOL(n), (idx + 1) % n)>>

\* [modelA, modelB] for pair index idx.
PairAt(idx, n) ==
    <<At(MODEL_POOL(n), (idx * 2) % n), At(MODEL_POOL(n), (idx * 2 + 1) % n)>>

\* getModelPair()
GetModelPair ==
    /\ Len(selHistory) < MaxSelections
    /\ IF poolSize < 2
       THEN /\ selResult' = [kind |-> "error", a |-> Undefined, b |-> Undefined,
                             message |-> "Need at least 2 models in the pool for A/B comparison"]
            /\ UNCHANGED <<lastModelPairIndex, selHistory>>
       ELSE LET idx == NextPairIndex(lastModelPairIndex, poolSize)
                pair == PairAt(idx, poolSize)
            IN /\ lastModelPairIndex' = idx
               /\ selResult' = [kind |-> "pair", a |-> pair[1], b |-> pair[2], message |-> ""]
               /\ selHistory' = Append(selHistory, pair)
    /\ UNCHANGED <<poolSize, twVars, stVars, cyVars, prVars, gsVars, ftVars, ucVars, chVars, rtVars>>

\* The orders [...MODEL_POOL].sort(() => Math.random() - 0.5) can produce:
\* every permutation of the pool.
Shuffles(n) ==
    {s \in [1..n -> 1..n] : \A i, j \in 1..n : i # j => s[i] # s[j]}

\* The first two entries of a shuffled pool, with no size check.
RandomPairOf(shuffled) == <<At(shuffled, 0), At(shuffled, 1)>>

\* getRandomModelPair()
GetRandomModelPair ==
    /\ \E shuffled \in Shuffles(poolSize) :
         LET pair == RandomPairOf(shuffled)
         IN selResult' = [kind |-> "pair", a |-> pair[1], b |-> pair[2], message |-> ""]
    /\ UNCHANGED <<poolSize, lastModelPairIndex, selHistory, twVars, stVars, cyVars, prVars, gsVars, ftVars, ucVars, chVars, rtVars>>

\* resetModelRotation()
ResetModelRotation ==
    /\ lastModelPairIndex' = -1
    /\ selHistory' = <<>>
    /\ selResult' = NoResult
    /\ UNCHANGED <<poolSize, twVars, stVars, cyVars, prVars, gsVars, ftVars, ucVars, chVars, rtVars>>

(***************************************************************************)
(* twitterApiRequest                                                       *)
(***************************************************************************)

\* `retries = 3`, the default every caller uses.
RETRIES == 3
BASE_WAIT_MS == 15000
MAX_WAIT_MS == 60000

\* parseInt of a string that does not start with a number.
NaN == -1

\* Values of the Retry-After header of a 429 response: absent (get() returns
\* null), empty, delta-seconds, or an HTTP date.
RetryAfterHeaders == {"none", "", "0", "5", "120", "date"}

\* Texts of a non-OK response body / of a thrown error, by what the retry
\* test looks for in them.
BodyTexts == {"plain", "mentions rate limit", "mentions 429"}

Responses ==
    {[kind |-> "ok", status |-> 200, retryAfter |-> "none", body |-> b] :
        b \in {"json", "not json"}}
    \cup {[kind |-> "status", status |-> 429, retryAfter |-> h, body |-> "plain"] :
        h \in RetryAfterHeaders}
    \cup {[kind |-> "status", status |-> s, retryAfter |-> "none", body |-> b] :
        s \in {401, 500}, b \in BodyTexts}
    \cup {[kind |-> k, status |-> 0, retryAfter |-> "none", body |-> "plain"] :
        k \in {"network error", "timeout"}}

NoError == [type |-> "none", status |-> 0, body |-> ""]
\* new Error('Twitter API rate limit exceeded. ... Please wait and try again.')
RateLimitError == [type |-> "rate limit exceeded", status |-> 429, body |-> ""]
\* new Error(`Twitter API error ${status}: ${errorText}`)
ApiError(status, body) == [type |-> "api error", status |-> status, body |-> body]
\* what fetch() or response.json() rejected with
ThrownError(kind) == [type |-> kind, status |-> 0, body |-> "plain"]

\* error.message.includes(needle) for needle "rate limit" or "429".
MessageIncludes(err, needle) ==
    CASE err.type = "rate limit exceeded" -> needle = "rate limit"
      [] err.type = "api error" ->
            \/ err.body = "mentions rate limit" /\ needle = "rate limit"
            \/ err.body = "mentions 429" /\ needle = "429"
            \/ err.status = 429 /\ needle = "429"
      [] OTHER -> FALSE

\* The catch block's test: does the error count as a rate-limit error?
IsRetried(err) == MessageIncludes(err, "rate limit") \/ MessageIncludes(err, "429")

\* parseInt(retryAfter, 10)
ParseInt(h) ==
    CASE h = "0" -> 0
      [] h = "5" -> 5
      [] h = "120" -> 120
      [] OTHER -> NaN

\* A backoff that shrinks with the attempt number.
BackoffWaitShrinking(attempt) == Min(BASE_WAIT_MS \div Pow2(attempt), MAX_WAIT_MS)

\* Math.min(15000 * Math.pow(2, attempt), 60000)
BackoffWait(attempt) == Min(BASE_WAIT_MS * Pow2(attempt), MAX_WAIT_MS)

\* const waitTime = retryAfter ? parseInt(retryAfter, 10) * 1000 : backoff
WaitTime(resp, attempt) ==
    IF resp.retryAfter \notin {"none", ""}
    THEN IF ParseInt(resp.retryAfter) = NaN THEN NaN ELSE ParseInt(resp.retryAfter) * 1000
    ELSE BackoffWait(attempt)

\* A loop that runs once more than `retries`.
LoopContinuesOffByOne(attempt) == attempt <= RETRIES

\* The for loop's test.
LoopContinues(attempt) == attempt < RETRIES

\* The catch block followed by the loop's attempt++ and exit test.
Caught(err) ==
    /\ twLastError' = err
    /\ IF ~IsRetried(err)
       THEN /\ twPc' = "done"
            /\ twOutcome' = [kind |-> "throw", error |-> err]
            /\ UNCHANGED twAttempt
       ELSE /\ twAttempt' = twAttempt + 1
            /\ IF LoopContinues(twAttempt + 1)
               THEN twPc' = "fetch" /\ UNCHANGED twOutcome
               ELSE twPc' = "done" /\ twOutcome' = [kind |-> "throw", error |-> err]

\* One iteration of the loop body: the request and the handling of its response.
TwAttempt ==
    /\ twPc = "fetch"
    /\ \E resp \in Responses :
        /\ twResponses' = Append(twResponses, resp)
        /\ CASE resp.kind \in {"network error", "timeout"} ->
                  Caught(ThrownError(resp.kind)) /\ UNCHANGED twWaits
             [] resp.status = 429 ->
                  IF twAttempt < RETRIES - 1
                  THEN /\ twWaits' = Append(twWaits, WaitTime(resp, twAttempt))
                       /\ twPc' = "sleep"
                       /\ UNCHANGED <<twAttempt, twLastError, twOutcome>>
                  ELSE Caught(RateLimitError) /\ UNCHANGED twWaits
             [] resp.kind = "status" ->
                  Caught(ApiError(resp.status, resp.body)) /\ UNCHANGED twWaits
             [] resp.kind = "ok" /\ resp.body = "not json" ->
                  Caught(ThrownError("syntax error")) /\ UNCHANGED twWaits
             [] OTHER ->
                  /\ twPc' = "done"
                  /\ twOutcome' = [kind |-> "return", error |-> NoError]
                  /\ UNCHANGED <<twAttempt, twLastError, twWaits>>
    /\ UNCHANGED <<selVars, stVars, cyVars, prVars, gsVars, ftVars, ucVars, chVars, rtVars>>

\* sleep(waitTime) resolves; `continue` runs attempt++ and the loop test.
TwWake ==
    /\ twPc = "sleep"
    /\ twAttempt' = twAttempt + 1
    /\ twPc' = IF LoopContinues(twAttempt + 1) THEN "fetch" ELSE "done"
    /\ twOutcome' = IF LoopContinues(twAttempt + 1) THEN twOutcome
                    ELSE [kind |-> "throw", error |-> twLastError]
    /\ UNCHANGED <<twResponses, twWaits, twLastError, selVars, stVars, cyVars, prVars, gsVars, ftVars, ucVars, chVars, rtVars>>

(***************************************************************************)
(* Storage: readStorageData / writeStorageData and the mutations           *)
(***************************************************************************)

\* Mutations started per behaviour.
MaxOps == 2

MAX_CONTENTS == 100
MAX_COMPARISONS == 500

\* rawContentId 'test-arxiv-2512-04864'; the other raw content ids are positive.
SENTINEL == 0
\* winner 'tie'; model ids are positive.
TIE == 0
\* A timestamp that is undefined (lastEmailSentAt before any email).
NoTime == 0

Procs == {1, 2}

Take(seq, n) == SubSeq(seq, 1, Min(n, Len(seq)))

\* seq.slice(-n)
LastN(seq, n) == SubSeq(seq, Len(seq) - Min(n, Len(seq)) + 1, Len(seq))

\* A ModelSummary by `model`, not rated yet.  Its id is
\* `summary-${model.id}-${Date.now()}`: within one item, one per model.
ModelSummary(model, category, highlights) ==
    [id |-> model, modelId |-> model, category |-> category, highlights |-> highlights,
     score |-> 0, ratedAt |-> NoTime]

\* A ProcessedContent for raw content `raw`, processed at time t, with n
\* unrated summaries (one per model of the pair that answered).
ItemWith(raw, t, n) ==
    [id |-> raw, rawContentId |-> raw, publishedAt |-> t, processedAt |-> t,
     summaries |-> [k \in 1..n |-> ModelSummary(k, "news", "list")]]

\* A ProcessedContent with one summary.
Item(raw, t) == ItemWith(raw, t, 1)

\* Contents and comparisons stored by earlier runs: n entries, most recent
\* first for contents, oldest first for comparisons.
StoredContents(n) == [k \in 1..n |-> Item(1000 + k, 0 - k)]
StoredComparisons(n) ==
    [k \in 1..n |-> [id |-> k - n, contentId |-> 1001, modelA |-> 1, modelB |-> 2,
                     winner |-> 1, comparedAt |-> k - n]]

\* getDefaultData()
GetDefaultData(t) ==
    [contents |-> <<>>, comparisons |-> <<>>, lastFetchedAt |-> t, lastEmailSentAt |-> NoTime]

\* readStorageData(): the stored aggregate, or the defaults when the read or
\* the parse of a key throws.
ReadStorageData(st, t) == {st, GetDefaultData(t)}

\* A write that keeps whatever another writer stored meanwhile in the keys
\* this mutation did not change.
WriteChangedKeysOnly(data, read, current) ==
    [contents |-> IF data.contents = read.contents THEN current.contents ELSE data.contents,
     comparisons |-> IF data.comparisons = read.comparisons
                     THEN current.comparisons ELSE data.comparisons,
     lastFetchedAt |-> data.lastFetchedAt,
     lastEmailSentAt |-> data.lastEmailSentAt]

\* writeStorageData(data): sets all three keys from `data`; `read` is what the
\* mutation had read and `current` what is stored now, neither is looked at.
WriteStorageData(data, read, current) == data

\* What a writeStorageData that throws can leave behind: each of the three
\* set() calls of its Promise.all went through or did not, and not all did.
FailedWrites(data, current) ==
    {[contents |-> IF c THEN data.contents ELSE current.contents,
      comparisons |-> IF m THEN data.comparisons ELSE current.comparisons,
      lastFetchedAt |-> IF k THEN data.lastFetchedAt ELSE current.lastFetchedAt,
      lastEmailSentAt |-> IF k THEN data.lastEmailSentAt ELSE current.lastEmailSentAt] :
        c \in BOOLEAN, m \in BOOLEAN, k \in BOOLEAN} \ {data}

RawIds(contents) == {contents[k].rawContentId : k \in 1..Len(contents)}

RawIdSeq(contents) == [k \in 1..Len(contents) |-> contents[k].rawContentId]

\* A filter that lets every new item through.
UniqueNewKeepsAll(newContents, existing) == newContents

\* uniqueNew: the new items that pass the filter of addContents.
UniqueNew(newContents, existing) ==
    SelectSeq(newContents,
              LAMBDA c : c.rawContentId = SENTINEL \/ c.rawContentId \notin RawIds(existing))

\* data.contents after the filter ran: the filter's callback removes the stored
\* test article when it meets one among the new items.
ContentsAfterFilter(newContents, existing) ==
    IF \E k \in 1..Len(newContents) : newContents[k].rawContentId = SENTINEL
    THEN SelectSeq(existing, LAMBDA e : e.rawContentId # SENTINEL)
    ELSE existing

\* A retention that keeps the tail of the list.
RetainTail(contents) == LastN(contents, MAX_CONTENTS)

\* data.contents.slice(0, 100)
Retain(contents) == Take(contents, MAX_CONTENTS)

\* The body of addContents between its read and its write.
AddContentsTo(data, newContents, t) ==
    [data EXCEPT
        !.contents = Retain(UniqueNew(newContents, data.contents)
                            \o ContentsAfterFilter(newContents, data.contents)),
        !.lastFetchedAt = t]

\* A log that drops the newest entries when full.
RetainComparisonsHead(comparisons) == Take(comparisons, MAX_COMPARISONS)

\* data.comparisons.slice(-500)
RetainComparisons(comparisons) == LastN(comparisons, MAX_COMPARISONS)

NewComparison(arg, t) ==
    [id |-> t, contentId |-> arg.contentId, modelA |-> arg.modelA, modelB |-> arg.modelB,
     winner |-> arg.winner, comparedAt |-> t]

\* The body of recordComparison between its read and its write.
RecordComparisonTo(data, arg, t) ==
    [data EXCEPT
        !.comparisons = RetainComparisons(Append(data.comparisons, NewComparison(arg, t)))]

\* The body of updateLastEmailSent between its read and its write.
UpdateLastEmailSentIn(data, t) == [data EXCEPT !.lastEmailSentAt = t]

\* Index of the first element of seq satisfying Test, 0 when there is none
\* (Array.prototype.find).
FindIndex(seq, Test(_)) ==
    IF \E k \in 1..Len(seq) : Test(seq[k])
    THEN CHOOSE k \in 1..Len(seq) : Test(seq[k]) /\ \A j \in 1..(k - 1) : ~Test(seq[j])
    ELSE 0

\* updateRating finds its summary: both find() calls succeed.
RatingTargetFound(data, arg) ==
    LET c == FindIndex(data.contents, LAMBDA x : x.id = arg.contentId)
    IN /\ c # 0
       /\ FindIndex(data.contents[c].summaries, LAMBDA x : x.id = arg.summaryId) # 0

\* A body that rates the matching summary of every record with the content id.
UpdateRatingInEveryMatch(data, arg, t) ==
    [data EXCEPT !.contents =
        [c \in DOMAIN @ |->
            IF @[c].id = arg.contentId
            THEN [@[c] EXCEPT !.summaries =
                     [m \in DOMAIN @ |->
                         IF @[m].id = arg.summaryId
                         THEN [@[m] EXCEPT !.score = arg.score, !.ratedAt = t]
                         ELSE @[m]]]
            ELSE @[c]]]

\* The body of updateRating between its read and its write, when the summary
\* is found.
UpdateRatingIn(data, arg, t) ==
    LET c == FindIndex(data.contents, LAMBDA x : x.id = arg.contentId)
        m == FindIndex(data.contents[c].summaries, LAMBDA x : x.id = arg.summaryId)
    IN [data EXCEPT !.contents[c].summaries[m] =
            [@ EXCEPT !.score = arg.score, !.ratedAt = t]]

NoArg == [batch |-> <<>>, contentId |-> 0, summaryId |-> 0, score |-> 0,
          modelA |-> 0, modelB |-> 0, winner |-> 0]

\* The raw content ids of the lists handed to addContents.
BatchIdSeqs ==
    {<<>>, <<SENTINEL>>, <<1>>, <<SENTINEL, 1>>, <<1, 1>>, <<SENTINEL, SENTINEL>>,
     <<11, 12, 13, 14, 15>>}

AddArgs == {[NoArg EXCEPT !.batch = b] : b \in BatchIdSeqs}
\* recordComparison(contentId, modelA, modelB, winner): winner is any string,
\* here modelA, modelB, 'tie' or the id of a model that is neither.
VoteArgs == {[NoArg EXCEPT !.contentId = 1, !.modelA = 1, !.modelB = 2, !.winner = w] :
                w \in {1, 2, TIE, 3}}
RatingArgs == {[NoArg EXCEPT !.contentId = c, !.summaryId = 1, !.score = 5] : c \in {1, 99}}

OpArgs(op) ==
    CASE op = "addContents" -> AddArgs
      [] op = "recordComparison" -> VoteArgs
      [] op = "updateRating" -> RatingArgs
      [] op = "updateLastEmailSent" -> {NoArg}

Ops == {"addContents", "recordComparison", "updateRating", "updateLastEmailSent"}

IdleProc == [pc |-> "idle", op |-> "none", arg |-> NoArg,
             data |-> GetDefaultData(0), readSeq |-> 0]

\* What is remembered of a completed mutation: the data it read, the raw ids
\* stored just before its write, the contents stored just after it.
NoCall == [op |-> "none", arg |-> NoArg, before |-> GetDefaultData(0),
           overwrittenIds |-> <<>>, afterContents |-> <<>>, newItems |-> <<>>,
           wrote |-> FALSE, stale |-> FALSE]

\* const data = await readStorageData(): the first step of every mutation.
\* The calls in flight are interchangeable: a new one takes the first free slot.
Begin(p) ==
    /\ procs[p].pc = "idle"
    /\ \A q \in Procs : q < p => procs[q].pc # "idle"
    /\ opsBegun < MaxOps
    /\ \E op \in Ops : \E arg \in OpArgs(op) : \E data \in ReadStorageData(store, now) :
         procs' = [procs EXCEPT ![p] = [pc |-> "loaded", op |-> op, arg |-> arg,
                                        data |-> data, readSeq |-> writeSeq]]
    /\ opsBegun' = opsBegun + 1
    /\ UNCHANGED <<store, now, writeSeq, lastCall, prevCall, selVars, twVars, cyVars, prVars, gsVars, ftVars, ucVars, chVars, rtVars>>

\* The items a call of addContents at time t is handed for the ids in arg.batch.
NewContents(arg, t) == [k \in 1..Len(arg.batch) |-> Item(arg.batch[k], t)]

\* What the mutation of process p computes from the data it read.
Mutated(p, t) ==
    LET pr == procs[p]
    IN CASE pr.op = "addContents" -> AddContentsTo(pr.data, NewContents(pr.arg, t), t)
         [] pr.op = "recordComparison" -> RecordComparisonTo(pr.data, pr.arg, t)
         [] pr.op = "updateRating" ->
               IF RatingTargetFound(pr.data, pr.arg)
               THEN UpdateRatingIn(pr.data, pr.arg, t) ELSE pr.data
         [] pr.op = "updateLastEmailSent" -> UpdateLastEmailSentIn(pr.data, t)

\* updateRating returns before writeStorageData when it finds no summary.
Writes(p) ==
    procs[p].op = "updateRating" => RatingTargetFound(procs[p].data, procs[p].arg)

\* The rest of a mutation: change the data read and write all of it back.
\* The set() calls of these mutations go through; a write that throws is
\* followed in the cycle (CycleStore).
Finish(p) ==
    /\ procs[p].pc = "loaded"
    /\ now' = now + 1
    /\ store' = IF Writes(p)
                THEN WriteStorageData(Mutated(p, now), procs[p].data, store)
                ELSE store
    /\ writeSeq' = IF Writes(p) THEN writeSeq + 1 ELSE writeSeq
    /\ prevCall' = [lastCall EXCEPT !.before = GetDefaultData(0)]
    /\ lastCall' = [op |-> procs[p].op, arg |-> procs[p].arg,
                    before |-> procs[p].data,
                    overwrittenIds |-> RawIdSeq(store.contents),
                    afterContents |-> store'.contents,
                    newItems |-> NewContents(procs[p].arg, now),
                    wrote |-> Writes(p), stale |-> procs[p].readSeq # writeSeq]
    /\ procs' = [procs EXCEPT ![p] = IdleProc]
    /\ UNCHANGED <<opsBegun, selVars, twVars, cyVars, prVars, gsVars, ftVars, ucVars, chVars, rtVars>>

(***************************************************************************)
(* Model statistics: calculateModelStats, getModelStats                    *)
(***************************************************************************)

RECURSIVE FlattenRange(_, _, _)
\* The summaries of contents[lo..hi], in order (the range is halved to keep
\* the evaluation shallow on a full list).
FlattenRange(contents, lo, hi) ==
    IF lo > hi
    THEN <<>>
    ELSE IF lo = hi
         THEN contents[lo].summaries
         ELSE LET mid == (lo + hi) \div 2
              IN FlattenRange(contents, lo, mid) \o FlattenRange(contents, mid + 1, hi)

\* data.contents.flatMap(c => c.summaries)
Flatten(contents) == FlattenRange(contents, 1, Len(contents))

RECURSIVE SumRange(_, _, _)
SumRange(seq, lo, hi) ==
    IF lo > hi
    THEN 0
    ELSE IF lo = hi
         THEN seq[lo]
         ELSE LET mid == (lo + hi) \div 2
              IN SumRange(seq, lo, mid) + SumRange(seq, mid + 1, hi)

\* seq.reduce((sum, x) => sum + x, 0)
Sum(seq) == SumRange(seq, 1, Len(seq))

\* Math.round(total / n) for a total >= 0 and n > 0.
RoundedMean(total, n) == (2 * total + n) \div (2 * n)

\* The metrics calculateMetrics attached to a summary.  The summaries followed
\* here have the same text, hence the same metrics.
MetricsOf(summary) == [wordCount |-> 3, readabilityScore |-> 2, processingTimeMs |-> 1]

\* s.rating is set (by updateRating).
Rated(summary) == summary.ratedAt # NoTime

\* A calculateModelStats whose record for a model without summaries is zero
\* in every field.
CalculateModelStatsAllZero(modelId, summaries, wins, losses, ties) ==
    LET modelSummaries == SelectSeq(summaries, LAMBDA x : x.modelId = modelId)
        n == Len(modelSummaries)
        rated == SelectSeq(modelSummaries, Rated)
    IN IF n = 0
       THEN [modelId |-> modelId, totalSummaries |-> 0, averageRating |-> 0,
             averageWordCount |-> 0, averageReadability |-> 0,
             averageProcessingTime |-> 0, wins |-> 0, losses |-> 0, ties |-> 0]
       ELSE [modelId |-> modelId, totalSummaries |-> n,
             averageRating |->
                 IF Len(rated) > 0
                 THEN RoundedMean(10 * Sum([k \in 1..Len(rated) |-> rated[k].score]),
                                  Len(rated))
                 ELSE 0,
             averageWordCount |->
                 RoundedMean(Sum([k \in 1..n |-> MetricsOf(modelSummaries[k]).wordCount]), n),
             averageReadability |->
                 RoundedMean(Sum([k \in 1..n |->
                                     MetricsOf(modelSummaries[k]).readabilityScore]), n),
             averageProcessingTime |->
                 RoundedMean(Sum([k \in 1..n |->
                                     MetricsOf(modelSummaries[k]).processingTimeMs]), n),
             wins |-> wins, losses |-> losses, ties |-> ties]

\* calculateModelStats(modelId, modelName, summaries, wins, losses, ties).
\* averageRating is Math.round(avgRating * 10) / 10, kept here in tenths.
CalculateModelStats(modelId, summaries, wins, losses, ties) ==
    LET modelSummaries == SelectSeq(summaries, LAMBDA x : x.modelId = modelId)
        n == Len(modelSummaries)
        rated == SelectSeq(modelSummaries, Rated)
    IN IF n = 0
       THEN [modelId |-> modelId, totalSummaries |-> 0, averageRating |-> 0,
             averageWordCount |-> 0, averageReadability |-> 0,
             averageProcessingTime |-> 0, wins |-> wins, losses |-> losses, ties |-> ties]
       ELSE [modelId |-> modelId, totalSummaries |-> n,
             averageRating |->
                 IF Len(rated) > 0
                 THEN RoundedMean(10 * Sum([k \in 1..Len(rated) |-> rated[k].score]),
                                  Len(rated))
                 ELSE 0,
             averageWordCount |->
                 RoundedMean(Sum([k \in 1..n |-> MetricsOf(modelSummaries[k]).wordCount]), n),
             averageReadability |->
                 RoundedMean(Sum([k \in 1..n |->
                                     MetricsOf(modelSummaries[k]).readabilityScore]), n),
             averageProcessingTime |->
                 RoundedMean(Sum([k \in 1..n |->
                                     MetricsOf(modelSummaries[k]).processingTimeMs]), n),
             wins |-> wins, losses |-> losses, ties |-> ties]

\* The turns of the loop over data.comparisons that add one to winsMap[id]:
\* the branches `comp.winner === comp.modelA` and `comp.winner === comp.modelB`,
\* reached when the winner is not 'tie'.
WinTurns(comparisons, id) ==
    {k \in 1..Len(comparisons) :
        LET comp == comparisons[k]
        IN /\ comp.winner # TIE
           /\ \/ comp.winner = comp.modelA /\ comp.modelA = id
              \/ comp.winner # comp.modelA /\ comp.winner = comp.modelB /\ comp.modelB = id}

\* The turns that add one to lossesMap[id].
LossTurns(comparisons, id) ==
    {k \in 1..Len(comparisons) :
        LET comp == comparisons[k]
        IN /\ comp.winner # TIE
           /\ \/ comp.winner = comp.modelA /\ comp.modelB = id
              \/ comp.winner # comp.modelA /\ comp.winner = comp.modelB /\ comp.modelA = id}

\* winsMap[id] || 0, lossesMap[id] || 0 and tiesMap[id] || 0 after the loop.
\* A tie adds one to tiesMap[comp.modelA] and one to tiesMap[comp.modelB].
Tally(comparisons, id) ==
    [wins |-> Cardinality(WinTurns(comparisons, id)),
     losses |-> Cardinality(LossTurns(comparisons, id)),
     ties |-> Cardinality({k \in 1..Len(comparisons) :
                              comparisons[k].winner = TIE /\ comparisons[k].modelA = id})
              + Cardinality({k \in 1..Len(comparisons) :
                                comparisons[k].winner = TIE /\ comparisons[k].modelB = id})]

\* getModelStats() on the data it read.
GetModelStats(data, pool) ==
    LET allSummaries == Flatten(data.contents)
    IN [i \in 1..Len(pool) |->
           LET tally == Tally(data.comparisons, pool[i])
           IN CalculateModelStats(pool[i], allSummaries, tally.wins, tally.losses,
                                  tally.ties)]

NoStatsCall == [done |-> FALSE, data |-> GetDefaultData(0), result |-> <<>>]

\* A call of getModelStats: it reads the stored data and changes nothing.
GetModelStatsCall ==
    /\ \E data \in ReadStorageData(store, now) :
         gsCall' = [done |-> TRUE, data |-> data,
                    result |-> GetModelStats(data, MODEL_POOL(poolSize))]
    /\ UNCHANGED <<selVars, twVars, stVars, cyVars, prVars, ftVars, ucVars, chVars, rtVars>>

(***************************************************************************)
(* Summarization: generateSummaryWithModel, processContent,                *)
(* processAllContent, batchProcessContent                                  *)
(***************************************************************************)

\* Longest list of items handed to the summarizer.
MaxItems == 3

\* processAllContent's batchSize.
BATCH_SIZE == 3

\* A publishedAt that new Date() cannot parse (the '' a feed entry without a
\* <published> tag gets); the other timestamps are positive.
InvalidDate == 0

\* A RawContent: `short` says that title and content together have fewer than
\* 50 characters, `transcript` that its content is the text retrieved (for
\* a video: its captions) and not a placeholder.
RawContent(id, short, publishedAt) ==
    [id |-> id, short |-> short, publishedAt |-> publishedAt, transcript |-> TRUE]

\* The categories of the output contract.
CATEGORIES ==
    {"research", "product-launch", "tutorial", "opinion", "news", "analysis", "other"}

\* A model reply that parses and matches the output contract.
ValidReply ==
    [kind |-> "json", summary |-> "string", highlights |-> "list", category |-> "news"]

\* A model call that rejects (network error, HTTP error, timeout).
ThrowingReply == [ValidReply EXCEPT !.kind = "throws"]

\* What a model call can come back with: a rejection, a text that holds no
\* JSON object, or a JSON object whose summary is a string or is missing,
\* whose highlights are a list, a single string or missing, and whose
\* category is one of the seven, another word or missing.
ModelReplies ==
    {ThrowingReply,
     [ValidReply EXCEPT !.kind = "text"],
     ValidReply,
     [ValidReply EXCEPT !.category = "gossip"],
     [ValidReply EXCEPT !.category = "missing"],
     [ValidReply EXCEPT !.highlights = "string"],
     [ValidReply EXCEPT !.highlights = "missing"],
     [ValidReply EXCEPT !.summary = "missing"]}

\* The replies followed where only success or failure of a call matters.
ProcessReplies == {ThrowingReply, ValidReply}

\* The try block shared by generateSummaryWithModel and batchProcessContent:
\* generateText, JSON.parse of the cleaned text, calculateMetrics (which calls
\* summary.split and reads highlights.length), then the summary built from
\* the parsed object as it is.  Any throw gives null, here the empty list.
SummaryFrom(model, reply) ==
    IF reply.kind # "json"
    THEN <<>>
    ELSE IF reply.summary # "string" \/ reply.highlights = "missing"
         THEN <<>>
         ELSE <<ModelSummary(model, reply.category, reply.highlights)>>

\* generateSummaryWithModel(content, model)
GenerateSummaryWithModel(content, model, reply) ==
    IF content.short THEN <<>> ELSE SummaryFrom(model, reply)

\* A processContent that stores an item only when both models answered.
ProcessContentNeedsBoth(content, pair, replies, t) ==
    LET summaries == GenerateSummaryWithModel(content, pair[1], replies[1])
                         \o GenerateSummaryWithModel(content, pair[2], replies[2])
    IN IF Len(summaries) < MODELS_PER_CONTENT
       THEN <<>>
       ELSE <<[id |-> content.id, rawContentId |-> content.id,
               publishedAt |-> content.publishedAt, processedAt |-> t,
               summaries |-> summaries]>>

\* processContent(content) with the pair drawn and the replies of the two
\* model calls: null (the empty list) when no summary was generated.
ProcessContent(content, pair, replies, t) ==
    LET summaries == GenerateSummaryWithModel(content, pair[1], replies[1])
                         \o GenerateSummaryWithModel(content, pair[2], replies[2])
    IN IF Len(summaries) = 0
       THEN <<>>
       ELSE <<[id |-> content.id, rawContentId |-> content.id,
               publishedAt |-> content.publishedAt, processedAt |-> t,
               summaries |-> summaries]>>

\* The non-null results of one chunk, items from..to, in order.
RECURSIVE ProcessChunk(_, _, _, _, _, _)
ProcessChunk(contents, pairs, replies, t, from, to) ==
    IF from > to
    THEN <<>>
    ELSE ProcessContent(contents[from], pairs[from], replies[from], t)
             \o ProcessChunk(contents, pairs, replies, t, from + 1, to)

\* The loop of processAllContent from 0-based index i on.
RECURSIVE ProcessAllFrom(_, _, _, _, _)
ProcessAllFrom(contents, pairs, replies, t, i) ==
    IF i >= Len(contents)
    THEN <<>>
    ELSE ProcessChunk(contents, pairs, replies, t, i + 1, Min(i + BATCH_SIZE, Len(contents)))
             \o ProcessAllFrom(contents, pairs, replies, t, i + BATCH_SIZE)

\* processAllContent(contents)
ProcessAllContent(contents, pairs, replies, t) ==
    ProcessAllFrom(contents, pairs, replies, t, 0)

\* new Date(a) > new Date(b): false when either is an Invalid Date.
DateAfter(a, b) == a # InvalidDate /\ b # InvalidDate /\ a > b

\* contents.reduce((latest, c) => new Date(c.publishedAt) > new Date(latest.publishedAt)
\*                                ? c : latest), from item k on.
RECURSIVE MostRecentFrom(_, _, _)
MostRecentFrom(contents, latest, k) ==
    IF k > Len(contents)
    THEN latest
    ELSE MostRecentFrom(contents,
                        IF DateAfter(contents[k].publishedAt, latest.publishedAt)
                        THEN contents[k] ELSE latest,
                        k + 1)

MostRecent(contents) == MostRecentFrom(contents, contents[1], 2)

\* batchId = `batch-${Date.now()}`; raw content ids and stored ids are smaller.
BatchId(t) == 5000 + t

\* The model of the digest: the pool's deepseek model, else MODEL_POOL[0].
BatchModel(n) == At(MODEL_POOL(n), 0)

\* batchProcessContent(contents): null on an empty list and on any throw of
\* the model call, the parse or the metrics, else one digest whose id and
\* rawContentId are the batch id.  postCount is the ${contents.length} of
\* its title.
BatchProcessContent(contents, model, reply, t) ==
    IF contents = <<>> \/ SummaryFrom(model, reply) = <<>>
    THEN <<>>
    ELSE <<[id |-> BatchId(t), rawContentId |-> BatchId(t),
            postCount |-> Len(contents),
            publishedAt |-> MostRecent(contents).publishedAt,
            processedAt |-> t,
            summaries |-> SummaryFrom(model, reply)]>>

\* The pairs getRandomModelPair can return for a pool of n models.
RandomPairs(n) == {RandomPairOf(shuffled) : shuffled \in Shuffles(n)}

NoProcessCall == [fn |-> "none", contents |-> <<>>, pairs |-> <<>>, replies |-> <<>>,
                  outcomes |-> <<>>, result |-> <<>>]

\* What each model call of a per-item run returned: per item, the (empty or
\* one-element) lists summaryA and summaryB.
Outcomes(contents, pairs, replies) ==
    [k \in 1..Len(contents) |->
        [j \in 1..MODELS_PER_CONTENT |->
            GenerateSummaryWithModel(contents[k], pairs[k][j], replies[k][j])]]

\* A call of processAllContent on a list of up to MaxItems items.
ProcessAllCall ==
    /\ prCall = NoProcessCall
    /\ \E n \in 0..MaxItems :
       \E shorts \in [1..n -> BOOLEAN] :
       \E pairs \in [1..n -> RandomPairs(poolSize)] :
       \E replies \in [1..n -> [1..MODELS_PER_CONTENT -> ProcessReplies]] :
         LET contents == [k \in 1..n |-> RawContent(40 + k, shorts[k], k)]
         IN prCall' = [fn |-> "processAllContent", contents |-> contents,
                       pairs |-> pairs, replies |-> replies,
                       outcomes |-> Outcomes(contents, pairs, replies),
                       result |-> ProcessAllContent(contents, pairs, replies, now)]
    /\ UNCHANGED <<selVars, twVars, stVars, cyVars, gsVars, ftVars, ucVars, chVars, rtVars>>

\* A call of processContent on one item, with every kind of model reply.
ProcessContentCall ==
    /\ prCall = NoProcessCall
    /\ \E short \in BOOLEAN :
       \E pair \in RandomPairs(poolSize) :
       \E replies \in [1..MODELS_PER_CONTENT -> ModelReplies] :
         LET contents == <<RawContent(41, short, 1)>>
         IN prCall' = [fn |-> "processContent", contents |-> contents,
                       pairs |-> <<pair>>, replies |-> <<replies>>,
                       outcomes |-> Outcomes(contents, <<pair>>, <<replies>>),
                       result |-> ProcessContent(contents[1], pair, replies, now)]
    /\ UNCHANGED <<selVars, twVars, stVars, cyVars, gsVars, ftVars, ucVars, chVars, rtVars>>

\* A call of createDailyDigest / batchProcessContent on a list of up to
\* MaxItems items, with every kind of model reply.
BatchProcessCall ==
    /\ prCall = NoProcessCall
    /\ \E n \in 0..MaxItems :
       \E dates \in [1..n -> InvalidDate..MaxItems] :
       \E reply \in ModelReplies :
         LET contents == [k \in 1..n |-> RawContent(40 + k, FALSE, dates[k])]
         IN prCall' = [fn |-> "batchProcessContent", contents |-> contents,
                       pairs |-> <<>>, replies |-> <<reply>>,
                       outcomes |-> <<>>,
                       result |-> BatchProcessContent(contents, BatchModel(poolSize),
                                                      reply, now)]
    /\ UNCHANGED <<selVars, twVars, stVars, cyVars, gsVars, ftVars, ucVars, chVars, rtVars>>

(***************************************************************************)
(* Fetch-and-process cycle: fetchAndProcessContent                         *)
(***************************************************************************)

\* Cycles started per behaviour.
MaxCycles == 2

\* The source types in the order their content is concatenated.
SourceTypes == <<"youtube", "blog", "twitter">>

\* YOUTUBE_SOURCES, BLOG_SOURCES, TWITTER_SOURCES: a configuration with one
\* source of each type, named by its type.  (The lists as shipped hold Twitter
\* accounts only: the YouTube entry is commented out and the blog list empty.)
SourcesOfType(type) == {type}

AllSourceIds ==
    SourcesOfType("youtube") \cup SourcesOfType("blog") \cup SourcesOfType("twitter")

\* The sourceIds argument left out (GET, or a POST body without sourceIds).
Omitted == {"omitted"}

\* The sourceIds fetchAndProcessContent can be called with: left out, or the
\* valid ids of the POST body, of which there is at least one.
SourceIdChoices == {Omitted} \cup (SUBSET AllSourceIds \ {{}})

\* youtubeIds, blogIds, twitterIds: sourceIds?.filter(id => <type>.some(...)),
\* undefined when sourceIds is, else the possibly empty list of the type's ids.
IdsOfType(sourceIds, type) ==
    IF sourceIds = Omitted THEN Omitted ELSE sourceIds \cap SourcesOfType(type)

\* The sources fetchAllBlogContent and fetchAllTwitterContent go to:
\* sourceIds && sourceIds.length > 0 ? SOURCES.filter(...) : SOURCES.
\* fetchAllYouTubeContent takes no argument and goes to every channel.
SourcesFetched(type, ids) ==
    IF type = "youtube"
    THEN SourcesOfType(type)
    ELSE IF ids # Omitted /\ ids # {}
         THEN {src \in SourcesOfType(type) : src \in ids}
         ELSE SourcesOfType(type)

\* The raw content each source currently publishes.  It stays the same from
\* one cycle to the next: the ids are derived from the video id, the link or
\* the tweet id.  The blog source is the test article.
Feed(type) ==
    CASE type = "youtube" -> <<RawContent(21, FALSE, 3)>>
      [] type = "blog" -> <<RawContent(SENTINEL, FALSE, 1)>>
      [] type = "twitter" -> <<RawContent(31, FALSE, 2)>>

\* fetchChannelVideos maps every feed entry to a RawContent whose content is
\* the transcript, or the sentence 'Video: <title>. No transcript available.'
\* when fetchTranscript returned '' (no captions, or its request failed).
WithTranscript(contents, captions) ==
    [k \in 1..Len(contents) |-> [contents[k] EXCEPT !.transcript = captions]]

\* What the fetcher of a source resolves to: its items, or [] when the
\* request fails (every fetcher catches its errors).
FetchedFrom(type, ok, captions) ==
    IF ~ok
    THEN <<>>
    ELSE IF type = "youtube" THEN WithTranscript(Feed(type), captions) ELSE Feed(type)

\* fetchAll<Type>Content(ids): the items of the sources it goes to.
FetchAllContentOf(type, ids, ok, captions) ==
    IF type \in SourcesFetched(type, ids)
    THEN FetchedFrom(type, ok[type], captions)
    ELSE <<>>

\* allContent = [...youtubeContent, ...blogContent, ...twitterContent]
AllContent(sourceIds, ok, captions) ==
    FetchAllContentOf(SourceTypes[1], IdsOfType(sourceIds, SourceTypes[1]), ok, captions)
        \o FetchAllContentOf(SourceTypes[2], IdsOfType(sourceIds, SourceTypes[2]), ok, captions)
        \o FetchAllContentOf(SourceTypes[3], IdsOfType(sourceIds, SourceTypes[3]), ok, captions)

\* Every source a cycle called with sourceIds sends a request to.
Requested(sourceIds) ==
    SourcesFetched("youtube", IdsOfType(sourceIds, "youtube"))
        \cup SourcesFetched("blog", IdsOfType(sourceIds, "blog"))
        \cup SourcesFetched("twitter", IdsOfType(sourceIds, "twitter"))

\* allContent.map(c => c.id)
ContentIds(contents) == [k \in 1..Len(contents) |-> contents[k].id]

NoFetch == [sourceIds |-> Omitted, requested |-> {}]

\* The pair of each item of a cycle: which two models getRandomModelPair draws
\* is not followed here, the first two of the pool stand for them.
CyclePairs(n) == [k \in 1..n |-> RandomPairOf(MODEL_POOL(poolSize))]

\* The replies of the two model calls of an item followed in a cycle: both
\* succeed, one does, none does.
CycleReplies ==
    {<<ValidReply, ValidReply>>, <<ValidReply, ThrowingReply>>,
     <<ThrowingReply, ThrowingReply>>}

NoResponse == [success |-> FALSE, status |-> 0, fetched |-> 0, processed |-> 0]

\* What is remembered of a completed cycle: its mode, the ids of the content
\* it fetched, whether every model call succeeded and the write went through,
\* and the length of the stored list after it.
NoCycle == [batchMode |-> FALSE, content |-> <<>>, allOk |-> FALSE, stored |-> FALSE,
            lenAfter |-> 0]

\* The start of a cycle up to its zero-content return: the three fetchers
\* run, each source they go to answering or failing.
CycleFetch ==
    /\ cyPc = "idle"
    /\ cyCount < MaxCycles
    /\ cyCount' = cyCount + 1
    /\ \E batchMode \in BOOLEAN : \E sourceIds \in SourceIdChoices :
       \E ok \in [AllSourceIds -> BOOLEAN] : \E captions \in BOOLEAN :
         LET allContent == AllContent(sourceIds, ok, captions)
         IN /\ cyBatchMode' = batchMode
            /\ cyFetch' = [sourceIds |-> sourceIds, requested |-> Requested(sourceIds)]
            /\ cyContent' = allContent
            /\ IF allContent = <<>>
               THEN /\ cyPc' = "idle"
                    /\ cyResponse' = [success |-> TRUE, status |-> 200,
                                      fetched |-> 0, processed |-> 0]
                    /\ cyPrev' = cyLast
                    /\ cyLast' = [batchMode |-> batchMode, content |-> <<>>,
                                  allOk |-> TRUE, stored |-> FALSE,
                                  lenAfter |-> Len(store.contents)]
               ELSE /\ cyPc' = "fetched"
                    /\ UNCHANGED <<cyResponse, cyLast, cyPrev>>
    /\ UNCHANGED <<cyProcessed, cyAllOk, selVars, twVars, stVars, prVars, gsVars, ftVars, ucVars, chVars, rtVars>>

\* The model calls: one digest in batch mode, one entry per item otherwise.
CycleProcess ==
    /\ cyPc = "fetched"
    /\ cyPc' = "processed"
    /\ now' = now + 1
    /\ IF cyBatchMode
       THEN \E reply \in ProcessReplies :
              /\ cyProcessed' = BatchProcessContent(cyContent, BatchModel(poolSize),
                                                    reply, now)
              /\ cyAllOk' = (reply = ValidReply)
       ELSE \E replies \in [1..Len(cyContent) -> CycleReplies] :
              /\ cyProcessed' = ProcessAllContent(cyContent, CyclePairs(Len(cyContent)),
                                                  replies, now)
              /\ cyAllOk' = \A k \in 1..Len(cyContent) :
                                \A j \in 1..MODELS_PER_CONTENT : replies[k][j] = ValidReply
    /\ cyFetch' = NoFetch
    /\ UNCHANGED <<cyCount, cyBatchMode, cyContent, cyResponse, cyLast, cyPrev,
                   store, procs, opsBegun, writeSeq, lastCall, prevCall, selVars, twVars, prVars, gsVars, ftVars, ucVars, chVars, rtVars>>

\* await addContents(processedContent) and the response: success with the
\* counts, or status 500 when the write throws.
CycleStore ==
    /\ cyPc = "processed"
    /\ cyPc' = "idle"
    /\ \E data \in ReadStorageData(store, now) : \E wrote \in BOOLEAN :
         LET changed == AddContentsTo(data, cyProcessed, now)
         IN /\ IF wrote
               THEN store' = WriteStorageData(changed, data, store)
               ELSE store' \in FailedWrites(changed, store)
            /\ cyResponse' = IF wrote
                             THEN [success |-> TRUE, status |-> 200,
                                   fetched |-> Len(cyContent),
                                   processed |-> Len(cyProcessed)]
                             ELSE [success |-> FALSE, status |-> 500,
                                   fetched |-> 0, processed |-> 0]
            /\ cyLast' = [batchMode |-> cyBatchMode, content |-> ContentIds(cyContent),
                          allOk |-> cyAllOk, stored |-> wrote,
                          lenAfter |-> Len(store'.contents)]
    /\ cyPrev' = cyLast
    /\ UNCHANGED <<cyCount, cyBatchMode, cyContent, cyProcessed, cyAllOk, cyFetch,
                   now, procs, opsBegun, writeSeq, lastCall, prevCall, selVars, twVars, prVars, gsVars, ftVars, ucVars, chVars, rtVars>>

(***************************************************************************)
(* The fan-out of a cycle: Promise.all of the three fetchers, and the loop *)
(* of fetchAllTwitterContent over its sources                              *)
(***************************************************************************)

\* Twitter sources configured.
MaxSources == 2

\* A settled promise.
Fulfilled(value) == [status |-> "fulfilled", value |-> value]
Rejected == [status |-> "rejected", value |-> <<>>]

\* The fetchers that fetch their sources with Promise.all.
ParallelTypes == {"youtube", "blog"}

IdleFetcher == [pc |-> "idle", ok |-> FALSE, promise |-> Fulfilled(<<>>)]

IdleTwitter == [pc |-> "idle", n |-> 0, pos |-> 0, inFlight |-> 0,
                result |-> <<>>, log |-> <<>>]

NoJoin == [pc |-> "idle", allContent |-> <<>>]

\* The tweets of source k.
TweetsOf(k) == <<RawContent(30 + k, FALSE, k)>>

\* A loop that sleeps after every source.
DelayFollowsEverySource(pos, n) == TRUE

\* sources.indexOf(source) < sources.length - 1
DelayFollows(pos, n) == pos < n

\* A fetcher whose request error escapes it.
FetcherPromiseWithoutCatch(type, ok) ==
    IF ok THEN Fulfilled(FetchedFrom(type, ok, TRUE)) ELSE Rejected

\* The promise of fetchChannelVideos / fetchBlogArticles: the whole body is
\* inside try, the catch returns [], so the promise is always fulfilled.
FetcherPromise(type, ok) == Fulfilled(FetchedFrom(type, ok, TRUE))

\* Promise.all([...]): rejects when one of the promises does, else is
\* fulfilled with the list of their values.
PromiseAll(promises) ==
    IF \E i \in 1..Len(promises) : promises[i].status = "rejected"
    THEN Rejected
    ELSE Fulfilled([i \in 1..Len(promises) |-> promises[i].value])

\* const [youtubeContent, blogContent, twitterContent] = await Promise.all(...)
\* The three fetchers are called, each runs up to its first await.
FanOut ==
    /\ ftJoin.pc = "idle"
    /\ ftJoin' = [ftJoin EXCEPT !.pc = "waiting"]
    /\ ftFetchers' = [type \in ParallelTypes |-> [IdleFetcher EXCEPT !.pc = "running"]]
    /\ \E n \in 0..MaxSources :
         ftTwitter' = IF n = 0
                      THEN [IdleTwitter EXCEPT !.pc = "settled"]
                      ELSE [IdleTwitter EXCEPT !.pc = "ready", !.n = n, !.pos = 1]
    /\ UNCHANGED <<selVars, twVars, stVars, cyVars, prVars, gsVars, ucVars, chVars, rtVars>>

\* fetchChannelVideos / fetchBlogArticles settle: the request answered or
\* failed, and a failure was caught inside the fetcher.
FetcherSettle(type) ==
    /\ ftFetchers[type].pc = "running"
    /\ \E ok \in BOOLEAN :
         ftFetchers' = [ftFetchers EXCEPT
                           ![type] = [pc |-> "settled", ok |-> ok,
                                      promise |-> FetcherPromise(type, ok)]]
    /\ UNCHANGED <<ftTwitter, ftJoin, selVars, twVars, stVars, cyVars, prVars, gsVars, ucVars, chVars, rtVars>>

\* The end of one turn of the loop: results.push(...tweets), the tweets of
\* the source or [] when fetchTwitterTweets caught an error, then the sleep or
\* the next turn.
AfterSource(tw, ok) ==
    [tw EXCEPT !.result = @ \o (IF ok THEN TweetsOf(tw.pos) ELSE <<>>),
               !.log = Append(@, [kind |-> "finished", source |-> tw.pos, ok |-> ok]),
               !.pc = IF DelayFollows(tw.pos, tw.n)
                      THEN "sleep"
                      ELSE IF tw.pos < tw.n THEN "next" ELSE "settled"]

\* fetchTwitterTweets(source) starts: getUserId sends the lookup request.
TwitterLookup ==
    /\ ftTwitter.pc \in {"ready", "next"}
    /\ LET pos == IF ftTwitter.pc = "next" THEN ftTwitter.pos + 1 ELSE ftTwitter.pos
       IN ftTwitter' = [ftTwitter EXCEPT
                           !.pc = "lookup", !.pos = pos, !.inFlight = @ + 1,
                           !.log = Append(@, [kind |-> "request", source |-> pos, ok |-> TRUE])]
    /\ UNCHANGED <<ftFetchers, ftJoin, selVars, twVars, stVars, cyVars, prVars, gsVars, ucVars, chVars, rtVars>>

\* The lookup settles: fetchUserTimeline sends its request, or the error is
\* caught by fetchTwitterTweets, which returns [].
TwitterLookupSettle ==
    /\ ftTwitter.pc = "lookup"
    /\ \E ok \in BOOLEAN :
         LET back == [ftTwitter EXCEPT !.inFlight = @ - 1]
         IN ftTwitter' =
               IF ok
               THEN [back EXCEPT
                        !.pc = "timeline", !.inFlight = @ + 1,
                        !.log = Append(@, [kind |-> "request", source |-> back.pos,
                                           ok |-> TRUE])]
               ELSE AfterSource(back, FALSE)
    /\ UNCHANGED <<ftFetchers, ftJoin, selVars, twVars, stVars, cyVars, prVars, gsVars, ucVars, chVars, rtVars>>

\* The timeline request settles: the tweets, or [] from the catch.
TwitterTimelineSettle ==
    /\ ftTwitter.pc = "timeline"
    /\ \E ok \in BOOLEAN :
         ftTwitter' = AfterSource([ftTwitter EXCEPT !.inFlight = @ - 1], ok)
    /\ UNCHANGED <<ftFetchers, ftJoin, selVars, twVars, stVars, cyVars, prVars, gsVars, ucVars, chVars, rtVars>>

\* await sleep(1000) resolves: the loop goes on to the next source, or ends.
TwitterWake ==
    /\ ftTwitter.pc = "sleep"
    /\ ftTwitter' = [ftTwitter EXCEPT
                        !.log = Append(@, [kind |-> "delay", source |-> ftTwitter.pos,
                                           ok |-> TRUE]),
                        !.pos = @ + 1,
                        !.pc = IF ftTwitter.pos < ftTwitter.n THEN "ready" ELSE "settled"]
    /\ UNCHANGED <<ftFetchers, ftJoin, selVars, twVars, stVars, cyVars, prVars, gsVars, ucVars, chVars, rtVars>>

\* The three promises have settled: Promise.all settles, allContent is built
\* and processing starts, or the rejection reaches the catch of the cycle.
Join ==
    /\ ftJoin.pc = "waiting"
    /\ \A type \in ParallelTypes : ftFetchers[type].pc = "settled"
    /\ ftTwitter.pc = "settled"
    /\ LET all == PromiseAll(<<ftFetchers["youtube"].promise, ftFetchers["blog"].promise,
                                Fulfilled(ftTwitter.result)>>)
       IN ftJoin' = IF all.status = "rejected"
                    THEN [pc |-> "failed", allContent |-> <<>>]
                    ELSE [pc |-> "processing",
                          allContent |-> all.value[1] \o all.value[2] \o all.value[3]]
    /\ UNCHANGED <<ftFetchers, ftTwitter, selVars, twVars, stVars, cyVars, prVars, gsVars, ucVars, chVars, rtVars>>

(***************************************************************************)
(* getUserId and userIdCache                                               *)
(***************************************************************************)

\* getUserId calls started per behaviour.
MaxLookups == 3

\* The calls that can be in flight together (two cycles running at once).
Callers == {1, 2}

\* The usernames getUserId is called with, as lists of characters.
Usernames ==
    {<<"a">>, <<"A">>, <<"@", "a">>, <<"@", "A">>, <<"b">>, <<"@", "B">>}

\* c.toLowerCase() for one character.
LowerChar(c) ==
    CASE c = "A" -> "a"
      [] c = "B" -> "b"
      [] OTHER -> c

\* str.toLowerCase()
ToLowerCase(str) == [i \in 1..Len(str) |-> LowerChar(str[i])]

\* str.replace('@', ''): the first '@' is removed, wherever it is.
RemoveFirstAt(str) ==
    IF \E i \in 1..Len(str) : str[i] = "@"
    THEN LET at == CHOOSE i \in 1..Len(str) :
                      str[i] = "@" /\ \A j \in 1..(i - 1) : str[j] # "@"
         IN SubSeq(str, 1, at - 1) \o SubSeq(str, at + 1, Len(str))
    ELSE str

\* A key that keeps the case of the username.
CleanUsernameKeepingCase(username) == RemoveFirstAt(username)

\* cleanUsername = username.replace('@', '').toLowerCase()
CleanUsername(username) == ToLowerCase(RemoveFirstAt(username))

\* A lookup request that rejects, or answers with errors or without data.
FailedLookup == 0

\* What the lookup request can settle with: a failure, or the data of the
\* account as it is at the time of the request (its name and picture can
\* change from one request to the next, here between two revisions).
LookupResponses == {FailedLookup, 1, 2}

\* userData built from response.data
UserData(key, revision) == [id |-> key, revision |-> revision]

NoUserData == [id |-> << >>, revision |-> 0]

IdleCaller == [pc |-> "idle", username |-> << >>, key |-> << >>, start |-> << >>]

\* What is remembered of a completed call: its argument and key, whether it
\* sent a request, whether it returned (and what) or threw, the cache when
\* the call started, and the cache just before and after the call ended.
NoLookup == [username |-> << >>, key |-> << >>, requested |-> FALSE, returned |-> FALSE,
             result |-> NoUserData, start |-> << >>, before |-> << >>, after |-> << >>]

\* userIdCache.set(key, value)
CacheSet(cache, key, value) == (key :> value) @@ cache

\* getUserId(username) up to its first await: the cached record is returned
\* at once, or getTwitterBearerToken throws because the environment variable
\* (read at every call) is not set, or the lookup request is sent.
GetUserIdBegin(p) ==
    /\ ucCalls[p].pc = "idle"
    /\ \A q \in Callers : q < p => ucCalls[q].pc # "idle"
    /\ ucBegun < MaxLookups
    /\ ucBegun' = ucBegun + 1
    /\ \E username \in Usernames : \E token \in BOOLEAN :
         LET key == CleanUsername(username)
             cached == key \in DOMAIN userIdCache
         IN IF cached \/ ~token
            THEN /\ ucLast' = [username |-> username, key |-> key, requested |-> FALSE,
                               returned |-> cached,
                               result |-> IF cached THEN userIdCache[key] ELSE NoUserData,
                               start |-> userIdCache, before |-> userIdCache,
                               after |-> userIdCache]
                 /\ UNCHANGED ucCalls
            ELSE /\ ucCalls' = [ucCalls EXCEPT
                                   ![p] = [pc |-> "waiting", username |-> username,
                                           key |-> key, start |-> userIdCache]]
                 /\ UNCHANGED ucLast
    /\ UNCHANGED <<userIdCache, selVars, twVars, stVars, cyVars, prVars, gsVars, ftVars, chVars, rtVars>>

\* The lookup request settles: getUserId throws, or stores the record in the
\* cache and returns it.
GetUserIdSettle(p) ==
    /\ ucCalls[p].pc = "waiting"
    /\ \E response \in LookupResponses :
         LET key == ucCalls[p].key
             userData == UserData(key, response)
         IN /\ userIdCache' = IF response = FailedLookup
                              THEN userIdCache
                              ELSE CacheSet(userIdCache, key, userData)
            /\ ucLast' = [username |-> ucCalls[p].username, key |-> key,
                          requested |-> TRUE, returned |-> response # FailedLookup,
                          result |-> IF response = FailedLookup THEN NoUserData ELSE userData,
                          start |-> ucCalls[p].start, before |-> userIdCache,
                          after |-> userIdCache']
    /\ ucCalls' = [ucCalls EXCEPT ![p] = IdleCaller]
    /\ UNCHANGED <<ucBegun, selVars, twVars, stVars, cyVars, prVars, gsVars, ftVars, chVars, rtVars>>

(***************************************************************************)
(* processAllContent as it runs: chunks, model calls in flight, pauses     *)
(***************************************************************************)

\* Items handed to one processAllContent call.
MaxChunkItems == 4

NoCalls == <<"none", "none">>

\* The 1-based positions of the batch contents.slice(i, i + batchSize).
BatchAt(i, n) == {k \in 1..n : i < k /\ k <= i + BATCH_SIZE}

\* A loop that pauses after every chunk.
PauseFollowsEveryChunk(i, n) == TRUE

\* i + batchSize < contents.length
PauseFollows(i, n) == i + BATCH_SIZE < n

\* The reply a settled model call stands for.
ReplyOf(outcome) == IF outcome = "ok" THEN ValidReply ELSE ThrowingReply

\* Promise.all(batch.map(content => processContent(content))): every item of
\* the batch starts, and each sends its two model calls.
StartBatch(calls, i) ==
    [k \in DOMAIN calls |->
        IF k \in BatchAt(i, Len(calls)) THEN <<"inflight", "inflight">> ELSE calls[k]]

\* processAllContent(contents) is called and starts its first batch.
ChunkCall ==
    /\ chPc = "idle"
    /\ \E n \in 0..MaxChunkItems :
         /\ chContents' = [k \in 1..n |-> RawContent(40 + k, FALSE, k)]
         /\ chCalls' = StartBatch([k \in 1..n |-> NoCalls], 0)
         /\ chPc' = IF n = 0 THEN "done" ELSE "running"
    /\ UNCHANGED <<chIndex, chPauses, chResults,
                   selVars, twVars, stVars, cyVars, prVars, gsVars, ftVars, ucVars, rtVars>>

\* One model call settles: generateSummaryWithModel returns a summary or null.
ModelCallSettle(k, j) ==
    /\ chPc = "running"
    /\ k \in DOMAIN chCalls
    /\ chCalls[k][j] = "inflight"
    /\ \E outcome \in {"ok", "failed"} :
         chCalls' = [chCalls EXCEPT ![k][j] = outcome]
    /\ UNCHANGED <<chContents, chPc, chIndex, chPauses, chResults,
                   selVars, twVars, stVars, cyVars, prVars, gsVars, ftVars, ucVars, rtVars>>

\* Every processContent of the batch has resolved: the non-null records are
\* pushed, then the loop pauses when items remain and ends when none does.
ChunkJoin ==
    /\ chPc = "running"
    /\ \A k \in BatchAt(chIndex, Len(chContents)) :
          \A j \in 1..MODELS_PER_CONTENT : chCalls[k][j] \in {"ok", "failed"}
    /\ LET n == Len(chContents)
           last == Min(chIndex + BATCH_SIZE, n)
           replies == [k \in 1..n |-> <<ReplyOf(chCalls[k][1]), ReplyOf(chCalls[k][2])>>]
       IN /\ chResults' = chResults
                 \o ProcessChunk(chContents, CyclePairs(n), replies, now, chIndex + 1, last)
          /\ IF PauseFollows(chIndex, n)
             THEN /\ chPc' = "pause"
                  /\ UNCHANGED <<chIndex, chCalls>>
             ELSE /\ chPc' = "done"
                  /\ chIndex' = chIndex + BATCH_SIZE
                  /\ UNCHANGED chCalls
    /\ UNCHANGED <<chContents, chPauses,
                   selVars, twVars, stVars, cyVars, prVars, gsVars, ftVars, ucVars, rtVars>>

\* The setTimeout of the pause fires: i += batchSize and the next batch
\* starts, or the loop ends.
PauseEnd ==
    /\ chPc = "pause"
    /\ chPauses' = chPauses + 1
    /\ chIndex' = chIndex + BATCH_SIZE
    /\ IF chIndex + BATCH_SIZE < Len(chContents)
       THEN /\ chPc' = "running"
            /\ chCalls' = StartBatch(chCalls, chIndex + BATCH_SIZE)
       ELSE /\ chPc' = "done"
            /\ UNCHANGED chCalls
    /\ UNCHANGED <<chContents, chResults,
                   selVars, twVars, stVars, cyVars, prVars, gsVars, ftVars, ucVars, rtVars>>

(***************************************************************************)
(* Claims about the chunks of processAllContent                            *)
(***************************************************************************)

ItemsInFlight == {k \in DOMAIN chCalls : \E j \in 1..MODELS_PER_CONTENT : chCalls[k][j] = "inflight"}

CallsInFlight ==
    {c \in (DOMAIN chCalls) \X (1..MODELS_PER_CONTENT) : chCalls[c[1]][c[2]] = "inflight"}

ItemStarted(k) == chCalls[k] # NoCalls

ItemFinished(k) == \A j \in 1..MODELS_PER_CONTENT : chCalls[k][j] \in {"ok", "failed"}

\* The 0-based number of the chunk item k belongs to.
ChunkOf(k) == (k - 1) \div BATCH_SIZE

Chunks(n) == (n + BATCH_SIZE - 1) \div BATCH_SIZE

\* C26: at most 3 items and 6 model calls are in flight; an item of a later
\* chunk has started only when every item of the chunks before it has
\* finished and one pause per earlier chunk has elapsed; the loop pauses only
\* when items remain, so a finished call has paused once less than it had
\* chunks; and the records returned are those of the items with at least one
\* summary, in the order of their input items.
C26_ChunksOfThreeRunOneAfterAnother ==
    /\ Cardinality(ItemsInFlight) <= BATCH_SIZE
    /\ Cardinality(CallsInFlight) <= BATCH_SIZE * MODELS_PER_CONTENT
    /\ \A k \in DOMAIN chCalls :
          ItemStarted(k) =>
             /\ chPauses >= ChunkOf(k)
             /\ \A h \in DOMAIN chCalls : ChunkOf(h) < ChunkOf(k) => ItemFinished(h)
    /\ chPc = "pause" => chIndex + BATCH_SIZE < Len(chContents)
    /\ chPc = "done" /\ Len(chContents) > 0 => chPauses = Chunks(Len(chContents)) - 1
    /\ \A a, b \in DOMAIN chResults :
          a < b => chResults[a].rawContentId < chResults[b].rawContentId
    /\ chPc = "done" =>
          {chResults[a].rawContentId : a \in DOMAIN chResults}
             = {chContents[k].id : k \in {h \in DOMAIN chCalls :
                                            \E j \in 1..MODELS_PER_CONTENT : chCalls[h][j] = "ok"}}

\* Four items have been processed in two chunks with one pause between them;
\* the second item produced no record and the records of the first, third
\* and fourth were returned.
C26_Witness_TwoChunksOnePause ==
    /\ chPc = "done"
    /\ Len(chContents) = MaxChunkItems
    /\ Len(chContents) > BATCH_SIZE
    /\ chPauses = Chunks(Len(chContents)) - 1
    /\ chCalls[2] = <<"failed", "failed">>
    /\ Len(chResults) = Len(chContents) - 1

(***************************************************************************)
(* The cron route: GET and POST of /api/cron                               *)
(***************************************************************************)

\* Requests handled in one behaviour.
MaxRequests == 2

\* CRON_SECRET is not set (or is the empty string).
NoSecret == 0
Secrets == {NoSecret, 1, 2}

\* The Authorization header of a request: absent, another scheme, or
\* `Bearer <token>`; token NoSecret is the text 'undefined'.
NoHeader == [scheme |-> "none", token |-> NoSecret]
Bearer(token) == [scheme |-> "Bearer", token |-> token]
AuthHeaders == {NoHeader, [scheme |-> "Basic", token |-> 1]} \cup {Bearer(t) : t \in Secrets}

\* The body of a POST: not JSON, JSON without sourceIds, sourceIds that is
\* not an array, an array holding a configured id, an array holding none.
Bodies == {"notJson", "noSourceIds", "notArray", "validIds", "invalidIds"}

NoRequest == [method |-> "none", header |-> NoHeader, body |-> "notJson",
              status |-> 0, started |-> FALSE]

\* fetchAndProcessContent was called: the response is that of the cycle.
CycleStarted == [status |-> 200, started |-> TRUE]
Refused(status) == [status |-> status, started |-> FALSE]

\* The check at the head of GET.
AuthCheck(env, header) ==
    IF env.production
    THEN IF env.secret = NoSecret
         THEN Refused(500)
         ELSE IF header # Bearer(env.secret)
              THEN Refused(401)
              ELSE CycleStarted
    ELSE CycleStarted

\* The validation of the body of a POST.
BodyCheck(body) ==
    CASE body = "notArray" -> Refused(400)
      [] body = "invalidIds" -> Refused(400)
      [] OTHER -> CycleStarted

Handled(method, header, body, outcome) ==
    [method |-> method, header |-> header, body |-> body,
     status |-> outcome.status, started |-> outcome.started]

\* GET /api/cron
GET ==
    /\ rtHandled < MaxRequests
    /\ \E header \in AuthHeaders :
         rtLast' = Handled("GET", header, "notJson", AuthCheck(rtEnv, header))
    /\ rtHandled' = rtHandled + 1
    /\ UNCHANGED <<rtEnv, selVars, twVars, stVars, cyVars, prVars, gsVars, ftVars, ucVars, chVars>>

\* POST /api/cron, the manual trigger with an optional list of source ids.
POST ==
    /\ rtHandled < MaxRequests
    /\ \E header \in AuthHeaders : \E body \in Bodies :
         rtLast' = Handled("POST", header, body, BodyCheck(body))
    /\ rtHandled' = rtHandled + 1
    /\ UNCHANGED <<rtEnv, selVars, twVars, stVars, cyVars, prVars, gsVars, ftVars, ucVars, chVars>>

\* POST /api/cron of the route that hands the request to GET.
POSTViaGET ==
    /\ rtHandled < MaxRequests
    /\ \E header \in AuthHeaders : \E body \in Bodies :
         rtLast' = Handled("POST via GET", header, body, AuthCheck(rtEnv, header))
    /\ rtHandled' = rtHandled + 1
    /\ UNCHANGED <<rtEnv, selVars, twVars, stVars, cyVars, prVars, gsVars, ftVars, ucVars, chVars>>

InitRouteVars ==
    /\ rtEnv = [production |-> FALSE, secret |-> NoSecret]
    /\ rtHandled = 0
    /\ rtLast = NoRequest

(***************************************************************************)
(* Claims about the cron route (checked under SpecRoute)                   *)
(***************************************************************************)

\* C30: in production the route starts a fetch-and-process cycle only for a
\* request whose Authorization header is 'Bearer <CRON_SECRET>' with
\* CRON_SECRET configured, whichever entry point, GET or POST, took it.
C30_ProductionCycleNeedsTheCronSecret ==
    (rtEnv.production /\ rtLast.started) =>
        /\ rtEnv.secret # NoSecret
        /\ rtLast.header = Bearer(rtEnv.secret)

(***************************************************************************)
(* Specifications                                                          *)
(***************************************************************************)

InitSelectorVars ==
    /\ lastModelPairIndex = -1
    /\ selResult = NoResult
    /\ selHistory = <<>>

InitTwitterVars ==
    /\ twPc = "fetch"
    /\ twAttempt = 0
    /\ twResponses = <<>>
    /\ twWaits = <<>>
    /\ twLastError = NoError
    /\ twOutcome = [kind |-> "none", error |-> NoError]

InitStorageVars ==
    /\ now = 1
    /\ procs = [p \in Procs |-> IdleProc]
    /\ opsBegun = 0
    /\ writeSeq = 0
    /\ lastCall = NoCall
    /\ prevCall = NoCall

InitCycleVars ==
    /\ cyPc = "idle"
    /\ cyCount = 0
    /\ cyBatchMode = TRUE
    /\ cyContent = <<>>
    /\ cyProcessed = <<>>
    /\ cyAllOk = TRUE
    /\ cyResponse = NoResponse
    /\ cyLast = NoCycle
    /\ cyPrev = NoCycle
    /\ cyFetch = NoFetch

InitProcessVars == prCall = NoProcessCall

InitStatsVars == gsCall = NoStatsCall

InitChunkVars ==
    /\ chContents = << >>
    /\ chPc = "idle"
    /\ chIndex = 0
    /\ chCalls = << >>
    /\ chPauses = 0
    /\ chResults = << >>

InitLookupVars ==
    /\ userIdCache = << >>
    /\ ucCalls = [p \in Callers |-> IdleCaller]
    /\ ucBegun = 0
    /\ ucLast = NoLookup

InitFanoutVars ==
    /\ ftFetchers = [type \in ParallelTypes |-> IdleFetcher]
    /\ ftTwitter = IdleTwitter
    /\ ftJoin = NoJoin

EmptyStore == GetDefaultData(0)

InitSelector ==
    /\ poolSize \in 0..MaxPool
    /\ InitSelectorVars
    /\ InitTwitterVars
    /\ store = EmptyStore
    /\ InitStorageVars
    /\ InitCycleVars
    /\ InitProcessVars
    /\ InitStatsVars
    /\ InitFanoutVars
    /\ InitLookupVars
    /\ InitChunkVars
    /\ InitRouteVars

NextSelector ==
    \/ GetModelPair
    \/ GetRandomModelPair
    \/ ResetModelRotation

SpecSelector == InitSelector /\ [][NextSelector]_vars

InitTwitter ==
    /\ poolSize = 2
    /\ InitSelectorVars
    /\ InitTwitterVars
    /\ store = EmptyStore
    /\ InitStorageVars
    /\ InitCycleVars
    /\ InitProcessVars
    /\ InitStatsVars
    /\ InitFanoutVars
    /\ InitLookupVars
    /\ InitChunkVars
    /\ InitRouteVars

NextTwitter ==
    \/ TwAttempt
    \/ TwWake

\* fetch() settles (it carries a timeout) and sleep() resolves, so a started
\* call keeps taking steps.
SpecTwitter == InitTwitter /\ [][NextTwitter]_vars /\ WF_vars(NextTwitter)

\* Storage as earlier runs can have left it: empty, or one entry short of
\* both retention bounds.
InitStorage ==
    /\ poolSize = 2
    /\ InitSelectorVars
    /\ InitTwitterVars
    /\ \E full \in BOOLEAN :
         store = IF full
                 THEN [contents |-> StoredContents(MAX_CONTENTS - 1),
                       comparisons |-> StoredComparisons(MAX_COMPARISONS - 1),
                       lastFetchedAt |-> 0, lastEmailSentAt |-> NoTime]
                 ELSE EmptyStore
    /\ InitStorageVars
    /\ InitCycleVars
    /\ InitProcessVars
    /\ InitStatsVars
    /\ InitFanoutVars
    /\ InitLookupVars
    /\ InitChunkVars
    /\ InitRouteVars

NextStorage ==
    \/ \E p \in Procs : Begin(p)
    \/ \E p \in Procs : Finish(p)

SpecStorage == InitStorage /\ [][NextStorage]_vars

\* Cycles run one after the other, on a storage that is empty at first.
InitCycle ==
    /\ poolSize = 2
    /\ InitSelectorVars
    /\ InitTwitterVars
    /\ store = EmptyStore
    /\ InitStorageVars
    /\ InitCycleVars
    /\ InitProcessVars
    /\ InitStatsVars
    /\ InitFanoutVars
    /\ InitLookupVars
    /\ InitChunkVars
    /\ InitRouteVars

NextCycle ==
    \/ CycleFetch
    \/ CycleProcess
    \/ CycleStore

SpecCycle == InitCycle /\ [][NextCycle]_vars

\* Storage as earlier runs can have left it: empty, or two entries summarized
\* by the first model and three comparisons between the first two models.
InitStats ==
    /\ poolSize = 2
    /\ InitSelectorVars
    /\ InitTwitterVars
    /\ \E used \in BOOLEAN :
         store = IF used
                 THEN [contents |-> StoredContents(2),
                       comparisons |-> StoredComparisons(3),
                       lastFetchedAt |-> 0, lastEmailSentAt |-> NoTime]
                 ELSE EmptyStore
    /\ InitStorageVars
    /\ InitCycleVars
    /\ InitProcessVars
    /\ InitStatsVars
    /\ InitFanoutVars
    /\ InitLookupVars
    /\ InitChunkVars
    /\ InitRouteVars

\* Mutations made one after the other, and getModelStats between them.
NextStats ==
    \/ Begin(1)
    \/ Finish(1)
    \/ GetModelStatsCall

SpecStats == InitStats /\ [][NextStats]_vars

\* One fan-out of the three fetchers, with the Twitter sources fetched by the
\* API (demo mode off).
InitFanout ==
    /\ poolSize = 2
    /\ InitSelectorVars
    /\ InitTwitterVars
    /\ store = EmptyStore
    /\ InitStorageVars
    /\ InitCycleVars
    /\ InitProcessVars
    /\ InitStatsVars
    /\ InitFanoutVars
    /\ InitLookupVars
    /\ InitChunkVars
    /\ InitRouteVars

NextFanout ==
    \/ FanOut
    \/ \E type \in ParallelTypes : FetcherSettle(type)
    \/ TwitterLookup
    \/ TwitterLookupSettle
    \/ TwitterTimelineSettle
    \/ TwitterWake
    \/ Join

SpecFanout == InitFanout /\ [][NextFanout]_vars

\* getUserId calls, up to two of them in flight, on a cache that is empty when
\* the process starts.
InitLookup ==
    /\ poolSize = 2
    /\ InitSelectorVars
    /\ InitTwitterVars
    /\ store = EmptyStore
    /\ InitStorageVars
    /\ InitCycleVars
    /\ InitProcessVars
    /\ InitStatsVars
    /\ InitFanoutVars
    /\ InitLookupVars
    /\ InitChunkVars
    /\ InitRouteVars

NextLookup ==
    \/ \E p \in Callers : GetUserIdBegin(p)
    \/ \E p \in Callers : GetUserIdSettle(p)

SpecLookup == InitLookup /\ [][NextLookup]_vars

\* One processAllContent call with the two configured models.
InitChunks ==
    /\ poolSize = 2
    /\ InitSelectorVars
    /\ InitTwitterVars
    /\ store = EmptyStore
    /\ InitStorageVars
    /\ InitCycleVars
    /\ InitProcessVars
    /\ InitStatsVars
    /\ InitFanoutVars
    /\ InitLookupVars
    /\ InitChunkVars
    /\ InitRouteVars

NextChunks ==
    \/ ChunkCall
    \/ \E k \in 1..MaxChunkItems : \E j \in 1..MODELS_PER_CONTENT : ModelCallSettle(k, j)
    \/ ChunkJoin
    \/ PauseEnd

SpecChunks == InitChunks /\ [][NextChunks]_vars

\* The route under every environment: production or not, CRON_SECRET set or not.
InitRoute ==
    /\ poolSize = 2
    /\ InitSelectorVars
    /\ InitTwitterVars
    /\ store = EmptyStore
    /\ InitStorageVars
    /\ InitCycleVars
    /\ InitProcessVars
    /\ InitStatsVars
    /\ InitFanoutVars
    /\ InitLookupVars
    /\ InitChunkVars
    /\ rtEnv \in [production : BOOLEAN, secret : Secrets]
    /\ rtHandled = 0
    /\ rtLast = NoRequest

NextRoute ==
    \/ GET
    \/ POST
    \/ POSTViaGET

SpecRoute == InitRoute /\ [][NextRoute]_vars

\* One call of the summarizer, with the configured pool: the calls share no
\* state, so each is followed from the start.
InitProcess ==
    /\ poolSize = 2
    /\ InitSelectorVars
    /\ InitTwitterVars
    /\ store = EmptyStore
    /\ InitStorageVars
    /\ InitCycleVars
    /\ InitProcessVars
    /\ InitStatsVars
    /\ InitFanoutVars
    /\ InitLookupVars
    /\ InitChunkVars
    /\ InitRouteVars

NextProcess ==
    \/ ProcessAllCall
    \/ ProcessContentCall
    \/ BatchProcessCall

SpecProcess == InitProcess /\ [][NextProcess]_vars

(***************************************************************************)
(* Claims about the fetch-and-process cycle (checked under SpecCycle)      *)
(***************************************************************************)

\* Two cycles in a row fetched the same content in the same mode, every model
\* call of both succeeded and both stored their result.
RepeatedCycle(batchMode) ==
    /\ cyPc = "idle"
    /\ cyPrev.stored /\ cyLast.stored
    /\ cyPrev.allOk /\ cyLast.allOk
    /\ cyPrev.batchMode = batchMode /\ cyLast.batchMode = batchMode
    /\ cyLast.content = cyPrev.content

\* C2: a second cycle over unchanged source content leaves the stored contents
\* list no longer than the first cycle left it, in per-item mode and in
\* batch-digest mode alike.
C2_SecondCycleStoresNoMoreEntries ==
    \A batchMode \in BOOLEAN :
        RepeatedCycle(batchMode) => cyLast.lenAfter <= cyPrev.lenAfter

\* The per-item half of C2 alone.
PerItemSecondCycleStoresNoMoreEntries ==
    RepeatedCycle(FALSE) => cyLast.lenAfter <= cyPrev.lenAfter

(***************************************************************************)
(* Claims about twitterApiRequest (checked under SpecTwitter)              *)
(***************************************************************************)

\* How long setTimeout(resolve, ms) waits: a delay that is NaN or below 1
\* is run as a delay of 1 ms.
Delay(ms) == IF ms = NaN \/ ms < 1 THEN 1 ELSE ms

WaitsNonDecreasingAndCapped ==
    \A i \in 1..Len(twWaits) :
        /\ Delay(twWaits[i]) <= MAX_WAIT_MS
        /\ i > 1 => Delay(twWaits[i - 1]) <= Delay(twWaits[i])

Is429(resp) == resp.kind = "status" /\ resp.status = 429

NoRetryAfterSeen ==
    \A i \in 1..Len(twResponses) :
        Is429(twResponses[i]) => twResponses[i].retryAfter \in {"none", ""}

\* C6 as stated: within one call the waits before retrying are non-decreasing
\* and each is at most 60 seconds, whatever the 429 responses carry.
C6_WaitsCappedWhateverResponsesCarry == WaitsNonDecreasingAndCapped

\* C6 amended: when no 429 response of the call carries a Retry-After value,
\* the waits before retrying are non-decreasing and each is at most 60 seconds.
C6_BackoffWaitsCappedWithoutRetryAfter ==
    NoRetryAfterSeen => WaitsNonDecreasingAndCapped

C6_Witness_TwoBackoffWaits ==
    /\ NoRetryAfterSeen
    /\ Len(twWaits) = 2
    /\ twWaits[1] < twWaits[2]

All429 ==
    /\ Len(twResponses) >= 1
    /\ \A i \in 1..Len(twResponses) : Is429(twResponses[i])

\* C7: a call issues at most 3 HTTP requests and always ends; when every
\* attempt is answered with 429 it ends after the third request by throwing
\* the rate-limit error (whose message names the rate limit and says to wait)
\* and returns no value.
C7_AtMostThreeRequestsThenRateLimitError ==
    /\ [](/\ Len(twResponses) <= RETRIES
          /\ (twPc = "done" /\ All429) =>
                /\ Len(twResponses) = RETRIES
                /\ twOutcome = [kind |-> "throw", error |-> RateLimitError]
                /\ MessageIncludes(twOutcome.error, "rate limit"))
    /\ <>(twPc = "done")

C7_Witness_Persistent429 ==
    /\ twPc = "done"
    /\ All429
    /\ Len(twResponses) = RETRIES
    /\ twOutcome.kind = "throw"

IsNon429Failure(resp) ==
    \/ resp.kind \in {"network error", "timeout"}
    \/ resp.kind = "status" /\ resp.status # 429

\* C8: a failure that is not an HTTP 429 response (network error, timeout,
\* non-OK status other than 429, whatever its body says) is not retried: the
\* call ends by throwing after that request and issues no further request.
C8_Non429FailureIsNotRetried ==
    \A i \in 1..Len(twResponses) :
        IsNon429Failure(twResponses[i]) =>
            /\ i = Len(twResponses)
            /\ twPc = "done"
            /\ twOutcome.kind = "throw"

(***************************************************************************)
(* Claims about the model pair selector (checked under SpecSelector)       *)
(***************************************************************************)

ModelsIn(pairs) == {pairs[k][1] : k \in 1..Len(pairs)} \cup {pairs[k][2] : k \in 1..Len(pairs)}

\* How often model m is selected in pairs from..to of the history.
Occurrences(m, from, to) ==
    Cardinality({k \in from..to : selHistory[k][1] = m})
    + Cardinality({k \in from..to : selHistory[k][2] = m})

\* No pair repeats before every model of the pool has been selected, and
\* until then no model is selected twice.
FullCoverageBeforeRepeat ==
    \A j \in 1..Len(selHistory) :
        (\E i \in 1..(j - 1) : selHistory[i] = selHistory[j]) =>
            /\ ModelsIn(SubSeq(selHistory, 1, j - 1)) = 1..poolSize
            /\ \A m \in 1..poolSize : \E s \in 1..(j - 1) : Occurrences(m, s, j - 1) = 1

\* Successive calls return pool[0..1], pool[2..3], ... and wrap around.
ConsecutiveNonOverlappingPairs ==
    \A k \in 1..Len(selHistory) :
        LET first == 2 * ((k - 1) % TotalPairs(poolSize))
        IN selHistory[k] = <<first + 1, first + 2>>

\* Every TotalPairs consecutive selections select every model exactly once.
EveryWindowCoversPool ==
    \A s \in 1..Len(selHistory) :
        LET e == s + TotalPairs(poolSize) - 1
        IN e <= Len(selHistory) =>
              \A m \in 1..poolSize : Occurrences(m, s, e) = 1

C10_SmallPoolIsReportedByBothPolicies ==
    (poolSize < 2 /\ selResult.kind # "none") => selResult.kind = "error"

\* A whole rotation of an odd pool has been returned by getModelPair.
OddPoolRotated ==
    /\ poolSize % 2 = 1
    /\ Len(selHistory) >= 1
    /\ Len(selHistory) >= TotalPairs(poolSize)

\* C21 as stated: for an odd pool size the rotation selector can return a
\* pair whose two entries are the same model; the rotation being
\* deterministic, one whole rotation of an odd pool then holds such a pair.
C21_OddPoolRotationReturnsSameModelTwice ==
    OddPoolRotated => \E k \in 1..Len(selHistory) : selHistory[k][1] = selHistory[k][2]

\* C21 (amended): for every pool size, odd or even, every pair returned by
\* getModelPair holds two different models of the pool.
C21_RotationPairsAreDistinct ==
    \A k \in 1..Len(selHistory) :
        /\ selHistory[k][1] # selHistory[k][2]
        /\ selHistory[k][1] \in 1..poolSize
        /\ selHistory[k][2] \in 1..poolSize

\* A pool of five went through its two pairs and wrapped around.
C21_Witness_OddPoolWrapped ==
    /\ poolSize = 5
    /\ Len(selHistory) = 3
    /\ selHistory[2] = <<3, 4>>
    /\ selHistory[3] = <<1, 2>>

(***************************************************************************)
(* Claims about the storage (checked under SpecStorage)                    *)
(* The state a call finds is the data its readStorageData returned         *)
(* (lastCall.before); what it leaves is the data it wrote.                 *)
(***************************************************************************)

IsAdd(call) == call.op = "addContents" /\ call.wrote

DistinctIds(batch) == \A i, j \in 1..Len(batch) : i # j => batch[i] # batch[j]

Without(contents, raw) == SelectSeq(contents, LAMBDA e : e.rawContentId # raw)

\* The last two completed calls are two passes of addContents over the same
\* set of items, the second reading what the first wrote.
SecondPass ==
    /\ IsAdd(prevCall) /\ IsAdd(lastCall)
    /\ lastCall.arg.batch = prevCall.arg.batch
    /\ DistinctIds(lastCall.arg.batch)
    /\ lastCall.before.contents = prevCall.afterContents

\* C1: addContents deduplicates by rawContentId: a second pass over the same
\* set of items adds no item, except the item with the sentinel id, whose
\* stored entry is removed and replaced by the new one, so that exactly one
\* entry with that id is stored afterwards.
C1_SecondPassAddsOnlyTheSentinel ==
    SecondPass =>
        LET before == lastCall.before.contents
            after == lastCall.afterContents
            fresh == SelectSeq(lastCall.newItems, LAMBDA c : c.rawContentId = SENTINEL)
        IN /\ after = IF fresh # <<>> THEN fresh \o Without(before, SENTINEL) ELSE before
           /\ Len(after) = Len(before)
           /\ fresh # <<>> =>
                 /\ after[1] = fresh[1]
                 /\ Cardinality({i \in 1..Len(after) : after[i].rawContentId = SENTINEL}) = 1

C1_Witness_SentinelReplacedOnSecondPass ==
    /\ SecondPass
    /\ lastCall.arg.batch = <<SENTINEL, 1>>
    /\ lastCall.afterContents[1].rawContentId = SENTINEL
    /\ lastCall.afterContents[1].processedAt > lastCall.before.contents[1].processedAt
    /\ lastCall.afterContents[2] = lastCall.before.contents[2]

\* The new items addContents accepts: those with the sentinel id or with a
\* rawContentId not stored yet.
Accepted(call) ==
    SelectSeq(call.newItems,
              LAMBDA c : \/ c.rawContentId = SENTINEL
                         \/ \A k \in 1..Len(call.before.contents) :
                               call.before.contents[k].rawContentId # c.rawContentId)

\* The previously stored items that stay: all of them, but for the stored
\* sentinel entry when the call brings a new one.
Prior(call) ==
    IF \E k \in 1..Len(call.newItems) : call.newItems[k].rawContentId = SENTINEL
    THEN Without(call.before.contents, SENTINEL)
    ELSE call.before.contents

\* C3: after every addContents call the stored list holds at most 100
\* entries: the newly accepted items first, then the previously stored items
\* in their prior order, and whatever exceeds 100 is dropped from the tail.
C3_NewFirstThenPriorTruncatedTo100 ==
    /\ Len(store.contents) <= MAX_CONTENTS
    /\ IsAdd(lastCall) =>
          LET after == lastCall.afterContents
              all == Accepted(lastCall) \o Prior(lastCall)
          IN /\ Len(after) = Min(Len(all), MAX_CONTENTS)
             /\ \A k \in 1..Len(after) : after[k] = all[k]

C3_Witness_FiveAddedToNinetyNine ==
    /\ IsAdd(lastCall)
    /\ Len(lastCall.before.contents) = 99
    /\ Len(Accepted(lastCall)) = 5
    /\ Len(store.contents) = 100
    /\ store.contents[6] = lastCall.before.contents[1]
    /\ store.contents[100] = lastCall.before.contents[95]

IsVote(call) == call.op = "recordComparison" /\ call.wrote

\* C4: after every recordComparison call the log holds at most 500 entries,
\* the new comparison is the last entry, and the entries removed when the
\* bound is exceeded are the oldest ones, at the front of the log.
C4_NewComparisonLastOldestDropped ==
    /\ Len(store.comparisons) <= MAX_COMPARISONS
    /\ IsVote(lastCall) =>
          LET before == lastCall.before.comparisons
              after == store.comparisons
              dropped == Len(before) + 1 - Len(after)
          IN /\ Len(after) = Min(Len(before) + 1, MAX_COMPARISONS)
             /\ after[Len(after)].winner = lastCall.arg.winner
             /\ after[Len(after)].contentId = lastCall.arg.contentId
             /\ \A k \in 1..Len(before) : after[Len(after)].id # before[k].id
             /\ \A k \in 1..(Len(after) - 1) : after[k] = before[k + dropped]

C4_Witness_OldestComparisonDropped ==
    /\ IsVote(lastCall)
    /\ Len(lastCall.before.comparisons) = MAX_COMPARISONS
    /\ Len(store.comparisons) = MAX_COMPARISONS
    /\ store.comparisons[1] = lastCall.before.comparisons[2]

\* C5: a mutation writes back the whole aggregate it read, changed, with no
\* lock or version check: when another mutation wrote between its read and
\* its write, the stored state is what this mutation computed from its own
\* read, and what the other one changed is gone, also in the parts this
\* mutation did not touch.
C5_StaleWriteOverwritesWholeAggregate ==
    (lastCall.wrote /\ lastCall.stale) =>
        /\ lastCall.op \notin {"addContents", "updateRating"} =>
              store.contents = lastCall.before.contents
        /\ lastCall.op = "updateRating" =>
              RawIdSeq(store.contents) = RawIdSeq(lastCall.before.contents)
        /\ lastCall.op = "addContents" =>
              \A k \in 1..Len(store.contents) :
                  \/ \E i \in 1..Len(lastCall.newItems) : store.contents[k] = lastCall.newItems[i]
                  \/ \E i \in 1..Len(lastCall.before.contents) :
                        store.contents[k] = lastCall.before.contents[i]
        /\ lastCall.op # "recordComparison" =>
              store.comparisons = lastCall.before.comparisons
        /\ lastCall.op = "recordComparison" =>
              LET kept == Len(store.comparisons) - 1
                  read == lastCall.before.comparisons
              IN /\ kept <= Len(read)
                 /\ \A k \in 1..kept : store.comparisons[k] = read[Len(read) - kept + k]

\* A vote erases the contents an addContents call stored after the vote's read.
C5_Witness_VoteErasesAddedContents ==
    /\ lastCall.op = "recordComparison"
    /\ lastCall.wrote /\ lastCall.stale
    /\ prevCall.op = "addContents"
    /\ prevCall.wrote
    /\ lastCall.overwrittenIds = RawIdSeq(prevCall.afterContents)
    /\ store.contents = lastCall.before.contents
    /\ \E k \in 1..Len(lastCall.overwrittenIds) :
          \A i \in 1..Len(store.contents) :
              store.contents[i].rawContentId # lastCall.overwrittenIds[k]

\* Process p completes an updateRating call in this step.
RatingCompletes(p) ==
    /\ procs[p].pc = "loaded"
    /\ procs[p].op = "updateRating"
    /\ procs'[p].pc = "idle"

\* The positions <<record, summary>> at which two contents lists of the same
\* shape differ.
ChangedSummaries(before, after) ==
    {cm \in {<<c, m>> : c \in DOMAIN before, m \in 1..MODELS_PER_CONTENT} :
        /\ cm[2] \in DOMAIN before[cm[1]].summaries
        /\ after[cm[1]].summaries[cm[2]] # before[cm[1]].summaries[cm[2]]}

\* `after` is `before` but for the score and the time of rating of summaries.
SameButRatings(before, after) ==
    /\ after.comparisons = before.comparisons
    /\ after.lastFetchedAt = before.lastFetchedAt
    /\ after.lastEmailSentAt = before.lastEmailSentAt
    /\ DOMAIN after.contents = DOMAIN before.contents
    /\ \A c \in DOMAIN before.contents :
          /\ [after.contents[c] EXCEPT !.summaries = <<>>]
                = [before.contents[c] EXCEPT !.summaries = <<>>]
          /\ DOMAIN after.contents[c].summaries = DOMAIN before.contents[c].summaries
          /\ \A m \in DOMAIN before.contents[c].summaries :
                [after.contents[c].summaries[m] EXCEPT !.score = 0, !.ratedAt = NoTime]
                   = [before.contents[c].summaries[m] EXCEPT !.score = 0, !.ratedAt = NoTime]

C28_StoredRawContentIdsAreDistinct ==
    \A i, j \in 1..Len(store.contents) :
        i # j => store.contents[i].rawContentId # store.contents[j].rawContentId

\* Process p completes a mutation whose read failed: nothing was written
\* since its read, and what it holds is not what is stored but the defaults.
CompletesAfterFailedRead(p) ==
    /\ procs[p].pc = "loaded"
    /\ procs'[p].pc = "idle"
    /\ procs[p].readSeq = writeSeq
    /\ procs[p].data # store
    /\ procs[p].data.contents = <<>>
    /\ procs[p].data.comparisons = <<>>

\* C29: a mutation whose storage read failed loses none of the stored
\* contents and comparisons: every entry stored before its last step is
\* stored after it.
C29_FailedReadLosesNothingStored ==
    [][\A p \in Procs :
          CompletesAfterFailedRead(p) =>
             /\ \A k \in 1..Len(store.contents) :
                   \E i \in 1..Len(store'.contents) : store'.contents[i] = store.contents[k]
             /\ \A k \in 1..Len(store.comparisons) :
                   \E i \in 1..Len(store'.comparisons) :
                      store'.comparisons[i] = store.comparisons[k]]_vars

(***************************************************************************)
(* Claims about the summarizer (checked under SpecProcess)                 *)
(***************************************************************************)

IsPerItemCall(call) == call.fn \in {"processAllContent", "processContent"}

\* The summaries the two model calls of item k returned.
Returned(call, k) == call.outcomes[k][1] \o call.outcomes[k][2]

\* The positions, in order, of the items for which a model call returned a
\* summary.
Survivors(call) ==
    SelectSeq([k \in 1..Len(call.contents) |-> k], LAMBDA k : Returned(call, k) # <<>>)

\* C11: in per-item mode each model call succeeds or fails on its own reply,
\* and the result holds exactly the items with at least one successful call,
\* in order, each with exactly the summaries that succeeded (1 or 2); an item
\* with none is dropped and the others are not affected by it, so no item
\* with an empty summaries list is handed on to storage.
C11_ItemsKeptWithTheirSuccessfulSummaries ==
    IsPerItemCall(prCall) =>
        LET kept == Survivors(prCall)
        IN /\ \A k \in 1..Len(prCall.contents) : \A j \in 1..MODELS_PER_CONTENT :
                 prCall.replies[k][j] \in ProcessReplies =>
                     ((prCall.outcomes[k][j] # <<>>) <=>
                         (prCall.replies[k][j] = ValidReply /\ ~prCall.contents[k].short))
           /\ Len(prCall.result) = Len(kept)
           /\ \A i \in 1..Len(kept) :
                 /\ prCall.result[i].rawContentId = prCall.contents[kept[i]].id
                 /\ prCall.result[i].summaries = Returned(prCall, kept[i])
                 /\ Len(prCall.result[i].summaries) \in {1, 2}

\* Three items: both calls of the first succeed, none of the second, only the
\* second call of the third; the first and the third are returned.
C11_Witness_MiddleItemDropped ==
    /\ prCall.fn = "processAllContent"
    /\ Len(prCall.contents) = 3
    /\ Len(Returned(prCall, 1)) = 2
    /\ Returned(prCall, 2) = <<>>
    /\ prCall.outcomes[3][1] = <<>> /\ prCall.outcomes[3][2] # <<>>
    /\ Len(prCall.result) = 2
    /\ prCall.result[2].rawContentId = prCall.contents[3].id
    /\ Len(prCall.result[2].summaries) = 1

\* A digest call over at least one item whose model call returned an object
\* matching the output contract.
IsDigestCall(call) ==
    /\ call.fn = "batchProcessContent"
    /\ Len(call.contents) >= 1
    /\ call.replies[1] = ValidReply

\* One entry with one summary, the number of items in its title, and a
\* publishedAt that is one of the items' and that none of the items' is after.
DigestIsFor(result, contents) ==
    /\ Len(result) = 1
    /\ Len(result[1].summaries) = 1
    /\ result[1].postCount = Len(contents)
    /\ \E k \in 1..Len(contents) : result[1].publishedAt = contents[k].publishedAt
    /\ \A k \in 1..Len(contents) : contents[k].publishedAt <= result[1].publishedAt

\* C12: in batch-digest mode over N >= 1 items whose single model call
\* succeeds, exactly one ProcessedContent with exactly one ModelSummary is
\* produced, its title carries N and its publishedAt is the latest publishedAt
\* among the N items.
C12_DigestCarriesCountAndLatestDate ==
    IsDigestCall(prCall) => DigestIsFor(prCall.result, prCall.contents)

\* The same when every item's publishedAt parses as a date.
DigestOfDatedItemsCarriesLatestDate ==
    (/\ IsDigestCall(prCall)
     /\ \A k \in 1..Len(prCall.contents) : prCall.contents[k].publishedAt # InvalidDate)
        => DigestIsFor(prCall.result, prCall.contents)

\* C19: a model reply that is not valid JSON or does not match the output
\* contract never yields a ModelSummary: every summary returned by
\* processContent or batchProcessContent has one of the seven categories and
\* a list of highlights.
C19_EverySummaryMatchesTheOutputContract ==
    prCall # NoProcessCall =>
        \A i \in 1..Len(prCall.result) :
            \A j \in 1..Len(prCall.result[i].summaries) :
                /\ prCall.result[i].summaries[j].category \in CATEGORIES
                /\ prCall.result[i].summaries[j].highlights = "list"

(***************************************************************************)
(* Claims about the cycle's fetch stage and response (under SpecCycle)     *)
(***************************************************************************)

\* A cycle has completed and the response of the last one is in cyResponse.
CycleCompleted == cyPc = "idle" /\ cyCount > 0

\* C13: when every source the cycle went to failed, so that it obtained zero
\* content, the cycle reports a failure to its caller, not a success.
C13_ZeroContentIsReportedAsFailure ==
    (CycleCompleted /\ cyLast.content = <<>>) => ~cyResponse.success

\* C14: whenever at least one item was fetched the cycle reports success with
\* the fetched and processed counts, whatever fails afterwards (model calls,
\* parsing, storing the result).
C14_ContentFetchedIsReportedAsSuccess ==
    (CycleCompleted /\ cyLast.content # <<>>) =>
        /\ cyResponse.success
        /\ cyResponse.fetched = Len(cyLast.content)

\* C18: a video whose transcript is missing is dropped by the ingestion step:
\* it is not among the content fetched and is not summarized.
C18_VideoWithoutTranscriptIsDropped ==
    /\ \A k \in 1..Len(cyContent) : cyContent[k].transcript
    /\ cyPc = "processed" =>
          \A i \in 1..Len(cyProcessed) : \A k \in 1..Len(cyContent) :
              cyProcessed[i].rawContentId = cyContent[k].id => cyContent[k].transcript

\* C20: a cycle called with a sourceIds list sends requests only to the
\* sources whose ids are in the list; only when sourceIds is left out does it
\* go to every configured source.
C20_OnlySelectedSourcesAreFetched ==
    /\ cyFetch.sourceIds # Omitted => cyFetch.requested \subseteq cyFetch.sourceIds
    /\ (cyFetch # NoFetch /\ cyFetch.sourceIds = Omitted) => cyFetch.requested = AllSourceIds

(***************************************************************************)
(* Claims about the comparison log and the model statistics                *)
(***************************************************************************)

\* C15: every ModelComparison of the stored log has a winner that is its own
\* modelA, its own modelB or 'tie'; no sequence of recordComparison calls
\* stores another value.
C15_StoredWinnerIsAPartyOrTie ==
    \A k \in 1..Len(store.comparisons) :
        store.comparisons[k].winner \in
            {store.comparisons[k].modelA, store.comparisons[k].modelB, TIE}

\* The comparisons of a log to which model m is a party.
ComparisonsOf(comparisons, m) ==
    {k \in 1..Len(comparisons) : m \in {comparisons[k].modelA, comparisons[k].modelB}}

\* C16: getModelStats tallies the log symmetrically: every logged comparison
\* adds one win to its winner and one loss to the other party, or one tie to
\* both parties and no win or loss.  So every comparison a model is a party
\* to counts once in that model's record, as a tie exactly when it is one,
\* and the wins reported are as many as the losses.
C16_EveryComparisonCountsOnceForEachParty ==
    gsCall.done =>
        LET log == gsCall.data.comparisons
            stats == gsCall.result
        IN /\ \A i \in 1..Len(stats) :
                 LET mine == ComparisonsOf(log, stats[i].modelId)
                 IN /\ stats[i].wins + stats[i].losses + stats[i].ties = Cardinality(mine)
                    /\ stats[i].ties = Cardinality({k \in mine : log[k].winner = TIE})
           /\ Sum([i \in 1..Len(stats) |-> stats[i].wins])
                 = Sum([i \in 1..Len(stats) |-> stats[i].losses])

\* The tally is symmetric on a log whose winners are all parties or 'tie'.
TallyOfValidLogIsSymmetric ==
    (\A k \in 1..Len(gsCall.data.comparisons) :
        gsCall.data.comparisons[k].winner \in
            {gsCall.data.comparisons[k].modelA, gsCall.data.comparisons[k].modelB, TIE})
        => C16_EveryComparisonCountsOnceForEachParty

\* The configured models without a summary in the data getModelStats read.
WithoutSummaries(call) ==
    {i \in 1..Len(call.result) :
        \A c \in 1..Len(call.data.contents) :
            \A j \in 1..Len(call.data.contents[c].summaries) :
                call.data.contents[c].summaries[j].modelId # call.result[i].modelId}

ZeroedTotals(stat) ==
    /\ stat.totalSummaries = 0
    /\ stat.averageRating = 0
    /\ stat.averageWordCount = 0
    /\ stat.averageReadability = 0
    /\ stat.averageProcessingTime = 0

\* C17 as stated: the record of a configured model with zero stored summaries
\* is zero in every field, wins, losses and ties included.
C17_NoSummariesGivesAllZeroRecord ==
    gsCall.done =>
        \A i \in WithoutSummaries(gsCall) :
            /\ ZeroedTotals(gsCall.result[i])
            /\ gsCall.result[i].wins = 0
            /\ gsCall.result[i].losses = 0
            /\ gsCall.result[i].ties = 0

\* C17 (amended): the record of a configured model with zero stored summaries
\* has totalSummaries 0 and every average 0, and its wins, losses and ties
\* are those of the comparison log: a win for each comparison it is a party
\* to and the winner of, a loss for each one the other party won, a tie for
\* each tie; they are 0 when no logged comparison names the model.
C17_NoSummariesGivesZeroTotalsAndLoggedTallies ==
    gsCall.done =>
        \A i \in WithoutSummaries(gsCall) :
            LET m == gsCall.result[i].modelId
                log == gsCall.data.comparisons
                mine == ComparisonsOf(log, m)
            IN /\ ZeroedTotals(gsCall.result[i])
               /\ gsCall.result[i].wins =
                     Cardinality({k \in mine : log[k].winner # TIE /\ log[k].winner = m})
               /\ gsCall.result[i].losses =
                     Cardinality({k \in mine :
                         /\ log[k].winner # TIE
                         /\ log[k].winner # m
                         /\ log[k].winner \in {log[k].modelA, log[k].modelB}})
               /\ gsCall.result[i].ties =
                     Cardinality({k \in mine : log[k].winner = TIE})
               /\ mine = {} =>
                     /\ gsCall.result[i].wins = 0
                     /\ gsCall.result[i].losses = 0
                     /\ gsCall.result[i].ties = 0

\* getModelStats ran on a store without contents whose log holds one
\* comparison, won by its modelA: the record of modelA has no summaries and
\* one win, the record of modelB no summaries and one loss.
C17_Witness_WinWithoutSummaries ==
    /\ gsCall.done
    /\ gsCall.data.contents = <<>>
    /\ Len(gsCall.data.comparisons) = 1
    /\ gsCall.data.comparisons[1].winner = gsCall.data.comparisons[1].modelA
    /\ WithoutSummaries(gsCall) = {1, 2}
    /\ gsCall.result[1].totalSummaries = 0 /\ gsCall.result[1].wins = 1
    /\ gsCall.result[2].totalSummaries = 0 /\ gsCall.result[2].losses = 1

(***************************************************************************)
(* Claims about the order of the steps of a cycle (under SpecCycle)        *)
(***************************************************************************)

\* The fetched items the model calls of the cycle in progress were issued
\* for: every item in batch mode (the digest prompt holds them all), every
\* item long enough to be summarized in per-item mode.
ItemsSentToModels ==
    {k \in 1..Len(cyContent) : cyBatchMode \/ ~cyContent[k].short}

\* C22: within a cycle the fetched items are deduplicated against the stored
\* contents before summarization: once the model calls of a cycle are made,
\* none was issued for an item whose id is already in storage.
C22_NoModelCallForStoredItem ==
    cyPc = "processed" =>
        \A k \in ItemsSentToModels : cyContent[k].id \notin RawIds(store.contents)

(***************************************************************************)
(* Claims about the fan-out of the fetchers (under SpecFanout)             *)
(***************************************************************************)

\* The items of the parallel fetcher of `type` when its request answered.
AnsweredItems(type) == IF ftFetchers[type].ok THEN Feed(type) ELSE <<>>

RECURSIVE TweetsOfAnswered(_)
\* The tweets of the Twitter sources whose requests answered, in the order
\* the sources finished.
TweetsOfAnswered(log) ==
    IF log = <<>>
    THEN <<>>
    ELSE (IF Head(log).kind = "finished" /\ Head(log).ok
          THEN TweetsOf(Head(log).source) ELSE <<>>) \o TweetsOfAnswered(Tail(log))

\* C23: the per-type fetches of a cycle run concurrently and are joined
\* before processing starts; a failure while fetching a source or a whole
\* type yields an empty result for it only and never rejects the join: what
\* is processed is exactly the items of the sources that answered.
C23_JoinNeverRejectsAndKeepsWhatWasFetched ==
    /\ ftJoin.pc # "failed"
    /\ ftJoin.pc = "processing" =>
          /\ \A type \in ParallelTypes : ftFetchers[type].pc = "settled"
          /\ ftTwitter.pc = "settled"
          /\ ftJoin.allContent =
                 AnsweredItems("youtube") \o AnsweredItems("blog")
                     \o TweetsOfAnswered(ftTwitter.log)

\* The YouTube request and the first of two Twitter sources failed, the blog
\* and the second Twitter source answered: their items are processed.
C23_Witness_SiblingsOfFailedFetchesProcessed ==
    /\ ftJoin.pc = "processing"
    /\ ~ftFetchers["youtube"].ok
    /\ ftFetchers["blog"].ok
    /\ ftTwitter.n = 2
    /\ \E i \in 1..Len(ftTwitter.log) :
          ftTwitter.log[i] = [kind |-> "finished", source |-> 1, ok |-> FALSE]
    /\ ftJoin.allContent = Feed("blog") \o TweetsOf(2)

\* The first request for source k in the log of the loop, 0 when there is none.
FirstRequest(log, k) ==
    IF \E i \in 1..Len(log) : log[i].kind = "request" /\ log[i].source = k
    THEN CHOOSE i \in 1..Len(log) :
            /\ log[i].kind = "request" /\ log[i].source = k
            /\ \A j \in 1..(i - 1) : ~(log[j].kind = "request" /\ log[j].source = k)
    ELSE 0

\* C24: within one fetchAllTwitterContent call (demo mode off) the sources are
\* fetched one after another: the first request for source k+1 is issued only
\* after the fetch of source k has finished and the delay that follows it has
\* elapsed, at most one Twitter request is in flight at any time, and no
\* delay follows the last source.
C24_TwitterSourcesFetchedOneAfterAnother ==
    LET log == ftTwitter.log
    IN /\ ftTwitter.inFlight \in {0, 1}
       /\ \A k \in 1..(ftTwitter.n - 1) :
             FirstRequest(log, k + 1) # 0 =>
                 \E f \in 1..Len(log) : \E d \in 1..Len(log) :
                     /\ f < d /\ d < FirstRequest(log, k + 1)
                     /\ log[f].kind = "finished" /\ log[f].source = k
                     /\ log[d].kind = "delay" /\ log[d].source = k
       /\ ftTwitter.pc = "sleep" => ftTwitter.pos < ftTwitter.n
       /\ \A i \in 1..Len(log) : log[i].kind = "delay" => log[i].source < ftTwitter.n
       /\ ftTwitter.pc = "settled" /\ ftTwitter.n > 0 =>
             log[Len(log)].kind = "finished" /\ log[Len(log)].source = ftTwitter.n

\* Two sources fetched with both requests each: lookup and timeline of the
\* first, its end, the delay, lookup and timeline of the second, its end.
C24_Witness_TwoSourcesWithOneDelay ==
    /\ ftTwitter.pc = "settled"
    /\ ftTwitter.n = 2
    /\ Len(ftTwitter.log) = 7
    /\ ftTwitter.log[3].kind = "finished" /\ ftTwitter.log[3].source = 1
    /\ ftTwitter.log[4].kind = "delay"
    /\ ftTwitter.log[5].kind = "request" /\ ftTwitter.log[5].source = 2
    /\ ftTwitter.log[7].kind = "finished"

(***************************************************************************)
(* Claims about the handle-to-id cache (under SpecLookup)                  *)
(***************************************************************************)

\* A getUserId call has completed.
LookupCompleted == ucLast.username # << >>

\* The username without its leading '@', if it has one.
WithoutLeadingAt(username) ==
    IF username # << >> /\ Head(username) = "@" THEN Tail(username) ELSE username

\* username and key name the same account: they differ only by case or by a
\* leading '@'.
SameHandle(username, key) ==
    LET name == WithoutLeadingAt(username)
    IN /\ Len(name) = Len(key)
       /\ \A i \in 1..Len(name) :
             \/ name[i] = key[i]
             \/ <<name[i], key[i]>> \in {<<"A", "a">>, <<"B", "b">>}

\* The keys of a cache under which the account of username is stored.
KeysFor(username, cache) == {k \in DOMAIN cache : SameHandle(username, k)}

\* A call for an account that was cached when it started returns the cached
\* record without a request, and a call for another account returns only
\* after a request.
CachedAccountIsNotLookedUp ==
    IF KeysFor(ucLast.username, ucLast.start) # {}
    THEN /\ ~ucLast.requested
         /\ ucLast.returned
         /\ \A k \in KeysFor(ucLast.username, ucLast.start) :
               ucLast.result = ucLast.start[k]
         /\ ucLast.after = ucLast.before
    ELSE ucLast.requested \/ ~ucLast.returned

\* A call that threw left the cache as it was.
FailedLookupCachesNothing == ~ucLast.returned => ucLast.after = ucLast.before

EntriesNeverRemoved == DOMAIN ucLast.before \subseteq DOMAIN ucLast.after

\* C25 as stated: the cache is an append-only memo keyed by the lowercased
\* handle without '@': after a successful getUserId, a later getUserId for a
\* handle that differs only by case or a leading '@' returns the same record
\* without a request; a failed lookup caches nothing, and entries are never
\* removed or changed.
C25_CacheEntriesNeverRemovedOrChanged ==
    LookupCompleted =>
        /\ CachedAccountIsNotLookedUp
        /\ FailedLookupCachesNothing
        /\ EntriesNeverRemoved
        /\ \A k \in DOMAIN ucLast.before : ucLast.after[k] = ucLast.before[k]

\* C25 (amended): as stated, except that an entry can be replaced: a lookup
\* that started before the entry was stored (two getUserId calls for the same
\* account in flight together) stores its own response when it succeeds, and
\* the later calls return that record.  No other entry changes, and none is
\* removed.
C25_CacheEntryReplacedOnlyByOverlappingLookup ==
    LookupCompleted =>
        /\ CachedAccountIsNotLookedUp
        /\ FailedLookupCachesNothing
        /\ EntriesNeverRemoved
        /\ \A k \in DOMAIN ucLast.before :
              ucLast.after[k] # ucLast.before[k] =>
                  /\ SameHandle(ucLast.username, k)
                  /\ KeysFor(ucLast.username, ucLast.start) = {}
                  /\ ucLast.requested /\ ucLast.returned
                  /\ ucLast.after[k] = ucLast.result

\* With the account of 'a' cached, getUserId('@A') returned the cached record
\* without a request.
C25_Witness_OtherSpellingServedFromCache ==
    /\ ucLast.username = <<"@", "A">>
    /\ <<"a">> \in DOMAIN ucLast.start
    /\ ~ucLast.requested
    /\ ucLast.returned
    /\ ucLast.result = ucLast.start[<<"a">>]

====
